---------------------------- MODULE Spec2Model ----------------------------
(***************************************************************************)
(* State-machine model of torrra's transcoding scheduler                   *)
(* (src/torrra/core/transcoder.py), its job store (src/torrra/core/db.py), *)
(* the job list widget that drives it                                      *)
(* (src/torrra/widgets/transcoding.py) and the download manager            *)
(* (src/torrra/core/download.py) with the libtorrent session it drives.    *)
(*                                                                         *)
(* The scheduler runs on one asyncio event loop: the code between two      *)
(* suspension points of a coroutine is one atomic action here.  Strings    *)
(* are sequences of one-character strings, so that suffix, stem, lower()   *)
(* and slicing are computed and not assumed.  Progress values are exact    *)
(* fractions <<numerator, denominator>>.                                   *)
(***************************************************************************)
EXTENDS Integers, Sequences, FiniteSets, TLC

VARIABLES
    jobs,        \* table transcode_jobs: job id -> row
    seq,         \* sqlite_sequence of transcode_jobs (last AUTOINCREMENT id)
    now,         \* CURRENT_TIMESTAMP, in seconds
    config,      \* what get_config() answers
    active,      \* TranscodeManager._active_processes: job id -> process
    durations,   \* TranscodeManager._total_durations: job id -> seconds
    tasks,       \* the start_job_async tasks created so far, with their process
    uiJobs,      \* TranscodingContent._jobs: job id -> cached status
    selected,    \* TranscodingContent._selected_job
    raised,      \* the exception the last call of queue_job, cancel_job or
                 \* remove_job raised, "" if none
    cancelledAs, \* history: job id -> the stored status, pending or
                 \* in_progress, at which the last cancel_job of it ran
    sink,        \* TranscodeManager._notification_callback, by what it does
    notes,       \* history: the calls of the callback, <<event, job id>>
    scenario,    \* which bounded environment the behaviour runs in
    records,     \* table torrents: the magnet uris that have a row
    torrents,    \* DownloadManager.torrents: magnet uri -> handle
    handles,     \* the torrents of the libtorrent session, by handle
    files,       \* RESUME_DATA_DIR: magnet uri -> resume file
    metadata_updated, \* DownloadManager._metadata_updated
    disable_seeding,  \* general.disable_seeding of the settings
    alerts,      \* save_resume_data alerts the session has not handed out
    handed,      \* history: the update_torrent_metadata calls made, per uri
    removed,     \* history: uris removed and not added since
    call,        \* the last DownloadManager call: engine operations, result
    flush,       \* the save_all_resume_data call that is running, if any
    fetch        \* the fetch_torrent_files call that is running, if any

\* the state of the download manager, and that of the transcoder
dvars == <<torrents, handles, files, metadata_updated, disable_seeding,
           alerts, handed, removed, call, flush, fetch>>
tvars == <<jobs, seq, now, config, active, durations, tasks, uiJobs, selected,
           raised, cancelledAs, sink, notes>>
nvars == <<sink, notes>>

vars == <<jobs, seq, now, config, active, durations, tasks, uiJobs, selected,
          raised, cancelledAs, sink, notes, scenario, records, dvars>>

---------------------------------------------------------------------------
(* Bounds of the model.  Bounded environments share the actions:           *)
(* "schedule" has several jobs and tasks and a plain encoder, "job"       *)
(* follows one job with every progress line and exit, "queue" has every   *)
(* source file and rule set and jobs queued within one second, "admit"    *)
(* has several tasks and both budgets, "progress" feeds every progress    *)
(* line to the jobs of a plain scheduler, "ui" adds the job list widget,  *)
(* "attach", "blob", "control" and "metadata" have the download manager   *)
(* with its session: the first the resume flush, the second every kind of *)
(* resume file, the third the pause flag and the seeding policy, the      *)
(* fourth the metadata tick.  "flush" and "drain" follow the resume flush, *)
(* "notify" has every kind of callback, "restart" and "validate" start    *)
(* from a store with rows, "cancel" and "stop" cancel and remove jobs     *)
(* while their encoders run, "frame" and "ids" watch the rows and their   *)
(* ids, "cascade" deletes torrent records, "live" has the timer of the    *)
(* home screen drive one job to its end, and "fetch" runs                 *)
(* fetch_torrent_files beside the download manager.                       *)

\* jobs ever queued, tasks ever created, seconds that pass
MaxJobs == 2
MaxTasks == 2
MaxClock == 1
MaxJobsOne == 1
MaxTasksOne == 2
MaxJobsQueue == 2
MaxTasksQueue == 1
MaxJobsUI == 2
MaxTasksUI == 1
MaxJobsAdmit == 2
MaxTasksAdmit == 2
MaxJobsProgress == 2
MaxTasksProgress == 1
MaxJobsNotify == 2
MaxTasksNotify == 2
\* the jobs in the store at a restart, and the tasks created after it
MaxJobsRestart == 2
MaxTasksRestart == 2
MaxJobsValidate == 2
MaxTasksValidate == 2
MaxJobsCancel == 1
MaxTasksCancel == 2
MaxJobsStop == 1
MaxTasksStop == 1
MaxJobsFrame == 1
MaxTasksFrame == 1
MaxJobsIds == 2
MaxTasksIds == 1
MaxJobsCascade == 2
MaxTasksCascade == 1
\* the jobs and tasks that the timer of the home screen drives
MaxJobsLive == 1
MaxTasksLive == 1
\* torrents ever added to the session
MaxHandlesAttach == 3
MaxHandlesBlob == 2
MaxHandlesControl == 2
MaxHandlesMetadata == 2
MaxHandlesFlush == 2
MaxHandlesDrain == 2
MaxHandlesFetch == 3
\* the polls of has_metadata() one fetch_torrent_files call makes before its
\* timeout
MaxPolls == 2
\* the ticks of time.monotonic() that one wait_for_alert(1000) may take
MaxWaitTicks == 2

JobBound ==
    CASE scenario = "schedule" -> MaxJobs
      [] scenario = "job" -> MaxJobsOne
      [] scenario = "ui" -> MaxJobsUI
      [] scenario = "admit" -> MaxJobsAdmit
      [] scenario = "progress" -> MaxJobsProgress
      [] scenario = "notify" -> MaxJobsNotify
      [] scenario = "restart" -> MaxJobsRestart
      [] scenario = "validate" -> MaxJobsValidate
      [] scenario = "cancel" -> MaxJobsCancel
      [] scenario = "stop" -> MaxJobsStop
      [] scenario = "frame" -> MaxJobsFrame
      [] scenario = "ids" -> MaxJobsIds
      [] scenario = "cascade" -> MaxJobsCascade
      [] scenario = "live" -> MaxJobsLive
      [] OTHER -> MaxJobsQueue

HandleBound ==
    CASE scenario = "attach" -> MaxHandlesAttach
      [] scenario = "blob" -> MaxHandlesBlob
      [] scenario = "control" -> MaxHandlesControl
      [] scenario = "flush" -> MaxHandlesFlush
      [] scenario = "drain" -> MaxHandlesDrain
      [] scenario = "fetch" -> MaxHandlesFetch
      [] OTHER -> MaxHandlesMetadata

TaskBound ==
    CASE scenario = "schedule" -> MaxTasks
      [] scenario = "job" -> MaxTasksOne
      [] scenario = "ui" -> MaxTasksUI
      [] scenario = "admit" -> MaxTasksAdmit
      [] scenario = "progress" -> MaxTasksProgress
      [] scenario = "notify" -> MaxTasksNotify
      [] scenario = "restart" -> MaxTasksRestart
      [] scenario = "validate" -> MaxTasksValidate
      [] scenario = "cancel" -> MaxTasksCancel
      [] scenario = "stop" -> MaxTasksStop
      [] scenario = "frame" -> MaxTasksFrame
      [] scenario = "ids" -> MaxTasksIds
      [] scenario = "cascade" -> MaxTasksCascade
      [] scenario = "live" -> MaxTasksLive
      [] OTHER -> MaxTasksQueue

---------------------------------------------------------------------------
(* Values *)

\* Python's None; an optional value is <<>> or a one-element sequence, and the
\* optional sequences (a progress, an error message) are <<>> when None
None == <<>>

Min(a, b) == IF a <= b THEN a ELSE b
Max(a, b) == IF a >= b THEN a ELSE b

RECURSIVE Gcd(_, _)
Gcd(a, b) == IF b = 0 THEN a ELSE Gcd(b, a % b)

Abs(a) == IF a < 0 THEN -a ELSE a

\* the float n/d, d > 0, in lowest terms
Frac(n, d) ==
    LET g == Gcd(Abs(n), d) IN
    IF n = 0 THEN <<0, 1>> ELSE <<n \div g, d \div g>>

\* x / k and x * k for an integer k > 0, reduced before multiplying
FracDiv(x, k) ==
    LET g == Gcd(Abs(x[1]), k) IN
    IF x[1] = 0 THEN <<0, 1>> ELSE <<x[1] \div g, x[2] * (k \div g)>>

FracMul(x, k) ==
    LET g == Gcd(k, x[2]) IN <<x[1] * (k \div g), x[2] \div g>>

FracLeq(x, y) == x[1] * y[2] <= y[1] * x[2]

FracMin(x, y) == IF FracLeq(x, y) THEN x ELSE y

\* str.lower() on the characters that occur
Lower(c) ==
    CASE c = "M" -> "m"
      [] c = "K" -> "k"
      [] c = "V" -> "v"
      [] OTHER -> c

LowerStr(s) == [i \in 1..Len(s) |-> Lower(s[i])]

\* s[-n:] for n > 0
StrTail(s, n) == SubSeq(s, Max(1, Len(s) - n + 1), Len(s))

\* Text of the encoder's error stream is kept run-length encoded, a sequence
\* of <<character, count>> runs, so that the 500 character slice is computed
\* on texts longer than 500 characters.
RECURSIVE RunsLen(_)
RunsLen(r) == IF r = <<>> THEN 0 ELSE r[1][2] + RunsLen(Tail(r))

\* s[-n:] on runs
RECURSIVE RunsTail(_, _)
RunsTail(r, n) ==
    IF r = <<>> \/ n <= 0 THEN <<>>
    ELSE LET last == r[Len(r)]
             front == SubSeq(r, 1, Len(r) - 1) IN
         IF last[2] >= n THEN << <<last[1], n>> >>
         ELSE RunsTail(front, n - last[2]) \o <<last>>

\* str.rfind(c) as a 1-based index, 0 when c does not occur
RFind(s, c) ==
    LET hits == {i \in 1..Len(s) : s[i] = c} IN
    IF hits = {} THEN 0 ELSE CHOOSE i \in hits : \A k \in hits : k <= i

\* PurePath.name: the final component
PathName(p) == SubSeq(p, RFind(p, "/") + 1, Len(p))

\* PurePath.suffix: from the last dot of the name, unless the name starts
\* or ends with that dot
PathSuffix(p) ==
    LET name == PathName(p)
        i == RFind(name, ".") IN
    IF 1 < i /\ i < Len(name) THEN SubSeq(name, i, Len(name)) ELSE <<>>

\* PurePath.stem: the name without its suffix
PathStem(p) ==
    LET name == PathName(p)
        i == RFind(name, ".") IN
    IF 1 < i /\ i < Len(name) THEN SubSeq(name, 1, i - 1) ELSE name

RECURSIVE StripSlashes(_)
StripSlashes(d) ==
    IF Len(d) > 1 /\ d[Len(d)] = "/" THEN StripSlashes(SubSeq(d, 1, Len(d) - 1))
    ELSE d

\* str(Path(d) / name) for a relative name without separators
PathJoin(d, name) ==
    LET dir == StripSlashes(d) IN
    IF dir = <<"/">> THEN dir \o name ELSE dir \o <<"/">> \o name

---------------------------------------------------------------------------
(* Configuration (get_config) and the files of the scenario *)

Mp4 == <<"m", "p", "4">>
Mkv == <<"m", "k", "v">>

\* transcoding.rules of two configurations; a rule is a dict, a key it lacks
\* is left out of the record
RulesAvi == << [input_extension |-> <<"a", "v", "i">>, output_format |-> Mp4,
                resolution |-> "1080p"] >>
RulesMkv == << [input_extension |-> <<".", "M", "K", "V">>, resolution |-> "720p"],
               [input_extension |-> <<"m", "k", "v">>, output_format |-> Mkv,
                resolution |-> "original"] >>

ConfigAvi == [rules |-> RulesAvi, destination_path |-> <<>>,
              download_path |-> <<"/", "d">>, max_parallel_jobs |-> 1]
ConfigAviTwo == [rules |-> RulesAvi, destination_path |-> <<>>,
                 download_path |-> <<"/", "d">>, max_parallel_jobs |-> 2]
ConfigMkv == [rules |-> RulesMkv, destination_path |-> <<"/", "o", "/">>,
              download_path |-> <<"/", "d">>, max_parallel_jobs |-> 2]

Configs ==
    CASE scenario \in {"schedule", "ui", "admit", "progress", "restart"} ->
            {ConfigAvi, ConfigAviTwo}
      [] scenario \in {"attach", "blob", "control", "metadata", "flush",
                        "notify", "cancel", "stop", "ids", "drain",
                        "cascade", "live", "fetch"} ->
            {ConfigAvi}
      [] scenario = "job" -> {ConfigAvi, ConfigMkv}
      [] OTHER -> {ConfigAvi, ConfigMkv}

\* source files handed to queue_job
FileAvi == <<"/", "d", "/", "m", ".", "a", "v", "i">>
FileMkv == <<"/", "d", "/", "n", ".", "M", "k", "v">>
FileDirDot == <<"/", "d", ".", "a", "v", "i", "/", "m">>
FileHidden == <<"/", "d", "/", ".", "m", "k", "v">>
Files ==
    CASE scenario \in {"schedule", "job", "ui", "admit", "progress", "notify",
                        "restart", "validate", "cancel", "stop",
                        "frame", "ids", "cascade", "live"} ->
            {FileAvi}
      [] OTHER -> {FileAvi, FileMkv, FileDirDot, FileHidden}

Uris == {"magnet:1"}

---------------------------------------------------------------------------
(* TranscodeManager: rules and destination *)

get_rules(cfg) == cfg.rules

RuleExt(rule) ==
    LET rule_ext == IF "input_extension" \in DOMAIN rule
                    THEN rule.input_extension ELSE <<>> IN
    IF rule_ext # <<>> /\ rule_ext[1] = "." THEN rule_ext ELSE <<".">> \o rule_ext

RuleMatches(rule, file_path) ==
    LowerStr(PathSuffix(file_path)) = LowerStr(RuleExt(rule))

\* a lookup that answers the last matching rule
get_matching_rule_last(cfg, file_path) ==
    LET rules == get_rules(cfg)
        hits == {i \in 1..Len(rules) : RuleMatches(rules[i], file_path)} IN
    IF hits = {} THEN None
    ELSE << rules[CHOOSE i \in hits : \A k \in hits : k <= i] >>

\* a lookup that answers the first rule when none matches
get_matching_rule_any(cfg, file_path) ==
    LET rules == get_rules(cfg)
        hits == {i \in 1..Len(rules) : RuleMatches(rules[i], file_path)} IN
    IF rules = <<>> THEN None
    ELSE IF hits = {} THEN << rules[1] >>
    ELSE << rules[CHOOSE i \in hits : \A k \in hits : i <= k] >>

\* the first rule whose extension equals the file's, as <<rule>>; None if none
get_matching_rule(cfg, file_path) ==
    LET rules == get_rules(cfg)
        hits == {i \in 1..Len(rules) : RuleMatches(rules[i], file_path)} IN
    IF hits = {} THEN None
    ELSE << rules[CHOOSE i \in hits : \A k \in hits : i <= k] >>

get_destination_path(cfg) ==
    IF cfg.destination_path # <<>> THEN cfg.destination_path ELSE cfg.download_path

OutputFormat(rule) ==
    IF "output_format" \in DOMAIN rule THEN rule.output_format ELSE Mp4

\* queue_job's destination file for a source file that rule matches
DestFile(cfg, source_file, rule) ==
    PathJoin(get_destination_path(cfg),
             PathStem(source_file) \o <<".">> \o OutputFormat(rule))

---------------------------------------------------------------------------
(* The job store: table transcode_jobs *)

Statuses == {"pending", "in_progress", "completed", "failed", "cancelled"}
Terminal == {"completed", "failed", "cancelled"}

Zero == <<0, 1>>
Hundred == <<100, 1>>
\* the float 99.9
Cap == <<999, 10>>

\* dict without key k
Without(f, k) == [x \in DOMAIN f \ {k} |-> f[x]]

\* dict with f[k] = v
With(f, k, v) == [x \in DOMAIN f \cup {k} |-> IF x = k THEN v ELSE f[x]]

\* the row queue_job's INSERT writes; error_message and created_at take the
\* column defaults
NewRow(magnet_uri, source_file, dest_file, at) ==
    [magnet_uri |-> magnet_uri, source_file |-> source_file,
     destination_file |-> dest_file, status |-> "pending", progress |-> Zero,
     error_message |-> None, created_at |-> at]

\* the highest of a set of ids
Highest(ids) == CHOOSE x \in ids : \A y \in ids : y <= x

\* the id of an INSERT into a table whose key is a plain INTEGER PRIMARY KEY:
\* one more than the highest id stored
RowidOnly(js, sq) == Highest({0} \cup DOMAIN js) + 1

\* the id of an INSERT into a table whose key is INTEGER PRIMARY KEY
\* AUTOINCREMENT: one more than the highest id the table ever held, which
\* sqlite_sequence keeps
AutoIncrement(js, sq) == Highest({sq} \cup DOMAIN js) + 1

\* SELECT ... WHERE status = 'pending' ORDER BY created_at ASC: the ids in
\* every order the query may answer.  Rows with equal created_at come in
\* an order SQL leaves open.
get_pending_jobs(js) ==
    LET ids == {j \in DOMAIN js : js[j].status = "pending"}
        n == Cardinality(ids) IN
    {s \in [1..n -> ids] :
        /\ \A a, b \in 1..n : a # b => s[a] # s[b]
        /\ \A a, b \in 1..n : a < b => js[s[a]].created_at <= js[s[b]].created_at}

get_in_progress_count(js) ==
    Cardinality({j \in DOMAIN js : js[j].status = "in_progress"})

\* a write that replaces the row instead of updating three of its columns
update_job_status_replacing(js, job_id, status, progress, error_message) ==
    IF job_id \notin DOMAIN js THEN js
    ELSE [js EXCEPT ![job_id] =
            [source_file |-> None, magnet_uri |-> "", destination_file |-> None,
             status |-> status,
             progress |-> IF progress # None THEN progress ELSE Zero,
             error_message |-> error_message,
             created_at |-> js[job_id].created_at]]

\* the four UPDATE statements; an UPDATE of an id without a row changes
\* nothing
update_job_status(js, job_id, status, progress, error_message) ==
    IF job_id \notin DOMAIN js THEN js
    ELSE IF progress # None /\ error_message # None
    THEN [js EXCEPT ![job_id].status = status, ![job_id].progress = progress,
                    ![job_id].error_message = error_message]
    ELSE IF progress # None
    THEN [js EXCEPT ![job_id].status = status, ![job_id].progress = progress]
    ELSE IF error_message # None
    THEN [js EXCEPT ![job_id].status = status,
                    ![job_id].error_message = error_message]
    ELSE [js EXCEPT ![job_id].status = status]

update_job_progress(js, job_id, progress) ==
    IF job_id \notin DOMAIN js THEN js
    ELSE [js EXCEPT ![job_id].progress = progress]

\* DELETE FROM transcode_jobs WHERE id = ?
DeleteRow(js, job_id) == Without(js, job_id)

---------------------------------------------------------------------------
(* Encoder processes and progress lines *)

\* what ffprobe answers: no duration, or seconds
ProbeResults ==
    CASE scenario \in {"job", "progress", "cancel"} -> {0, 120}
      [] OTHER -> {0}

\* out_time_ms values the encoder prints: half of the duration, past its
\* end ("cancel": and before its start)
Samples ==
    CASE scenario = "cancel" -> {60000000, 240000000, -30000000}
      [] OTHER -> {60000000, 240000000}

\* a line of the progress stream: <<key, value>>; the value of
\* out_time_ms is an integer or unparsable
Lines ==
    CASE scenario \in {"job", "progress", "cancel"} ->
            {<<"out_time_ms", <<t>> >> : t \in Samples}
                \cup {<<"out_time_ms", <<>> >>, <<"frame", <<1>> >>}
      [] OTHER -> {<<"frame", <<1>> >>}

\* how an encoder ends: exit code and the bytes on its error stream, as
\* runs of <<character, count>>; "0xff" is a byte that is not UTF-8
CodecNotFound == << <<"c", 1>> >>
LongError == << <<"X", 1>>, <<"e", 500>> >>
NotUtf8 == << <<"0xff", 1>>, <<"c", 1>> >>
ExitOutcomes ==
    CASE scenario = "job" ->
            { [returncode |-> 0, stderr |-> <<>>],
              [returncode |-> 1, stderr |-> CodecNotFound],
              [returncode |-> 1, stderr |-> NotUtf8],
              [returncode |-> 255, stderr |-> LongError] }
      [] OTHER ->
            { [returncode |-> 0, stderr |-> <<>>],
              [returncode |-> 1, stderr |-> CodecNotFound] }

StderrTail == 500

\* a parser that forgets the cap
parse_ffmpeg_progress_uncapped(line, job_id, durs) ==
    IF line[1] = "out_time_ms" /\ line[2] # <<>>
    THEN LET current_ms == line[2][1] IN
         IF job_id \in DOMAIN durs /\ durs[job_id] > 0
         THEN FracMul(FracDiv(Frac(current_ms, 1000000), durs[job_id]), 100)
         ELSE None
    ELSE None

\* a parser that takes a second for a duration that is not cached
parse_ffmpeg_progress_unprobed(line, job_id, durs) ==
    IF line[1] = "out_time_ms" /\ line[2] # <<>>
    THEN LET current_ms == line[2][1]
             total == IF job_id \in DOMAIN durs /\ durs[job_id] > 0
                      THEN durs[job_id] ELSE 1 IN
         FracMin(FracMul(FracDiv(Frac(current_ms, 1000000), total), 100), Cap)
    ELSE None

\* the percentage of a progress line, None if the line carries none
parse_ffmpeg_progress(line, job_id, durs) ==
    IF line[1] = "out_time_ms" /\ line[2] # <<>>
    THEN LET current_ms == line[2][1] IN
         IF job_id \in DOMAIN durs /\ durs[job_id] > 0
         THEN FracMin(FracMul(FracDiv(Frac(current_ms, 1000000), durs[job_id]),
                         100), Cap)
         ELSE None
    ELSE None

---------------------------------------------------------------------------
(* DownloadManager: the environment *)

\* the torrents of the scenario; a resume file is absent, unreadable, not
\* parsable, or the blob of a torrent saved running or paused
MagnetUris ==
    CASE scenario \in {"attach", "control", "metadata", "flush", "drain",
                        "fetch"} ->
            {"magnet:1", "magnet:2"}
      [] scenario = "blob" -> {"magnet:1"}
      [] OTHER -> {}
ResumeFiles ==
    CASE scenario = "blob" ->
            {"absent", "unreadable", "corrupt", "running", "paused"}
      [] scenario = "attach" -> {"absent", "paused"}
      [] scenario = "drain" -> {"running"}
      [] OTHER -> {"absent"}
Policies == IF scenario = "control" THEN BOOLEAN ELSE {FALSE}

\* what the registered callback does when it is called: it returns, raises,
\* or answers a coroutine that never finishes; "none" is no callback
Sinks ==
    CASE scenario = "notify" -> {"none", "returns", "raises", "hangs"}
      [] OTHER -> {"returns"}

\* the scenarios that keep the history of the callback's calls
Recorded == scenario \in {"notify", "cancel"}

NoCall == [op |-> "", uri |-> "", found |-> None, ops |-> <<>>, result |-> None]

\* no save_all_resume_data call is running
\* (asked, waited, popped and before are history: the handles a snapshot was
\* requested of, the uris collected to wait for, the handles whose alert was
\* popped, and the resume files when the call began)
NoFlush ==
    [pc |-> "idle", asked |-> {}, pending |-> {}, elapsed |-> 0,
     waited |-> {}, popped |-> {}, before |-> << >>]

---------------------------------------------------------------------------
(* State *)

\* no fetch_torrent_files call is running; exit and attached tell how the
\* last one ended and whether it had put a torrent of its own in the session
NoFetch ==
    [pc |-> "idle", uri |-> "", handle |-> None, elapsed |-> 0,
     attached |-> FALSE, exit |-> ""]

\* a start_job_async task as asyncio.create_task made it, with the job row
\* the pending query handed to it; the encoder it launches is kept with it
NewTask(js, job_id) ==
    [job |-> job_id, source |-> js[job_id].source_file,
     destination |-> js[job_id].destination_file, pc |-> "spawned",
     proc |-> "none", returncode |-> None, stderr |-> <<>>, terminated |-> 0]

\* a task that has returned: its locals are gone
Returned(task) ==
    [task EXCEPT !.pc = "done", !.source = <<>>, !.destination = <<>>,
                 !.returncode = None, !.stderr = <<>>]

\* the download manager after construction, with the resume files an
\* earlier run has left
DownloadInit ==
    /\ torrents = << >>
    /\ handles = << >>
    /\ files \in [MagnetUris -> ResumeFiles]
    /\ metadata_updated = {}
    /\ disable_seeding \in Policies
    /\ alerts = {}
    /\ handed = [u \in MagnetUris |-> [calls |-> 0, raised |-> FALSE]]
    /\ removed = {}
    /\ call = NoCall
    /\ flush = NoFlush
    /\ fetch = NoFetch

InitIn(scn) ==
    /\ scenario = scn
    /\ records = Uris
    /\ DownloadInit
    /\ jobs = << >>
    /\ seq = 0
    /\ now = 0
    /\ config \in Configs
    /\ active = << >>
    /\ durations = << >>
    /\ tasks = << >>
    /\ uiJobs = << >>
    /\ selected = None
    /\ raised = ""
    /\ cancelledAs = << >>
    /\ sink \in Sinks
    /\ notes = << >>

Init == InitIn("schedule")
InitJob == InitIn("job")
InitQueue == InitIn("queue")
InitUI == InitIn("ui")
InitAdmit == InitIn("admit")
InitProgress == InitIn("progress")
InitAttach == InitIn("attach")
InitBlob == InitIn("blob")
InitControl == InitIn("control")
InitMetadata == InitIn("metadata")
InitFlush == InitIn("flush")
InitNotify == InitIn("notify")
InitCancel == InitIn("cancel")
InitStop == InitIn("stop")
InitFrame == InitIn("frame")
InitIds == InitIn("ids")
InitDrain == InitIn("drain")
InitCascade == InitIn("cascade")
InitLive == InitIn("live")
InitFetch == InitIn("fetch")

\* a row the store has kept over a restart
StoredRow(status) ==
    [NewRow("magnet:1", FileAvi, DestFile(ConfigAvi, FileAvi, RulesAvi[1]), 0)
        EXCEPT !.status = status,
               !.progress = IF status = "completed" THEN Hundred ELSE Zero]

\* the state after construction over a store that holds rows
InitOver(scn, rows) ==
    /\ scenario = scn
    /\ records = Uris
    /\ DownloadInit
    /\ jobs \in [1..JobBound -> rows]
    /\ seq = JobBound
    /\ now = 0
    /\ config \in Configs
    /\ active = << >>
    /\ durations = << >>
    /\ tasks = << >>
    /\ uiJobs = << >>
    /\ selected = None
    /\ raised = ""
    /\ cancelledAs = << >>
    /\ sink \in Sinks
    /\ notes = << >>

\* the process has crashed and started again: the store is as the crash
\* left it, with jobs pending, in_progress and completed; the tasks, the
\* tracked processes and the durations are gone
InitRestart ==
    InitOver("restart",
             {StoredRow(status) :
                 status \in {"pending", "in_progress", "completed"}})

\* the store holds pending jobs, with and without a destination file
InitValidate ==
    InitOver("validate",
             {[StoredRow("pending") EXCEPT !.destination_file = destination] :
                 destination \in {None, StoredRow("pending").destination_file}})

Tasks == 1..Len(tasks)
Issued == 1..seq

\* encoder processes launched and not yet exited
LiveProcesses == {t \in Tasks : tasks[t].proc = "running"}

\* the tasks of a job that have not returned
RunningTasks(job_id) == {t \in Tasks : tasks[t].job = job_id /\ tasks[t].pc # "done"}

---------------------------------------------------------------------------
(* Environment *)

\* the settings change
config_change(cfg) ==
    /\ cfg # config
    /\ config' = cfg
    /\ UNCHANGED <<jobs, seq, now, active, durations, tasks, uiJobs, selected,
                   raised, cancelledAs, scenario, records, dvars, nvars>>

\* what get_db_connection() yields: sqlite3.connect(DB_FILE) with no
\* PRAGMA foreign_keys = ON, and SQLite enforces no foreign key on a
\* connection that has not switched it on
ForeignKeys == FALSE

\* the jobs after a row of torrents is deleted: ON DELETE CASCADE deletes
\* the jobs of the torrent where foreign keys are enforced
Cascaded(js, magnet_uri) ==
    IF ForeignKeys
    THEN [j \in {i \in DOMAIN js : js[i].magnet_uri # magnet_uri} |-> js[j]]
    ELSE js

\* the torrent record of magnet_uri is deleted
delete_torrent_record(magnet_uri) ==
    /\ magnet_uri \in records
    /\ records' = records \ {magnet_uri}
    /\ jobs' = Cascaded(jobs, magnet_uri)
    /\ UNCHANGED <<seq, now, config, active, durations, tasks, uiJobs,
                   selected, raised, cancelledAs, scenario, dvars, nvars>>

\* another callback is registered
set_notification_callback(callback) ==
    /\ callback # sink
    /\ callback # "none"
    /\ sink' = callback
    /\ UNCHANGED <<jobs, seq, now, config, active, durations, tasks, uiJobs,
                   selected, raised, cancelledAs, notes, scenario, records, dvars>>

\* the encoder of task t exits
encoder_exit(t, outcome) ==
    /\ tasks[t].proc = "running"
    /\ tasks' = [tasks EXCEPT ![t].proc = "exited",
                              ![t].returncode = <<outcome.returncode>>,
                              ![t].stderr = outcome.stderr]
    /\ UNCHANGED <<jobs, seq, now, config, active, durations, uiJobs, selected,
                   raised, cancelledAs, scenario, records, dvars, nvars>>

---------------------------------------------------------------------------
(* TranscodeManager: the API *)

\* at: CURRENT_TIMESTAMP at the INSERT, not before the previous one
queue_job(magnet_uri, source_file, at) ==
    LET rule == get_matching_rule(config, source_file) IN
    IF rule = None
    THEN /\ raised' = "ValueError"
         /\ UNCHANGED <<jobs, seq, now, config, active, durations, tasks,
                        uiJobs, selected, cancelledAs, scenario, records, dvars, nvars>>
    ELSE /\ seq < JobBound
         /\ jobs' = With(jobs, AutoIncrement(jobs, seq),
                         NewRow(magnet_uri, source_file,
                                DestFile(config, source_file, rule[1]), at))
         /\ seq' = AutoIncrement(jobs, seq)
         /\ now' = at
         /\ raised' = ""
         /\ UNCHANGED <<config, active, durations, tasks, uiJobs, selected,
                        cancelledAs, scenario, records, dvars, nvars>>

\* process.terminate() of the process tracked for job_id: on a process that
\* has exited it either does nothing or raises ProcessLookupError,
\* depending on whether the loop has already dropped the transport's process
TerminateRaises(job_id) ==
    IF job_id \in DOMAIN active /\ tasks[active[job_id]].proc = "exited"
    THEN {TRUE, FALSE} ELSE {FALSE}

\* cancel_job's effect on the processes, the tracking map and the store
CancelTasks(job_id) ==
    IF job_id \in DOMAIN active /\ tasks[active[job_id]].proc = "running"
    THEN [tasks EXCEPT ![active[job_id]].terminated = @ + 1]
    ELSE tasks

CancelActive(job_id) == Without(active, job_id)

CancelJobs(job_id) == update_job_status(jobs, job_id, "cancelled", None, None)

\* the same with the write to the store put before the deletion of the entry
CancelTraceWriteFirst(job_id) ==
    << [tasks |-> tasks, active |-> active, jobs |-> jobs],
       [tasks |-> CancelTasks(job_id), active |-> active, jobs |-> jobs],
       [tasks |-> CancelTasks(job_id), active |-> active,
        jobs |-> CancelJobs(job_id)],
       [tasks |-> CancelTasks(job_id), active |-> CancelActive(job_id),
        jobs |-> CancelJobs(job_id)] >>

\* the processes, the tracking map and the store at the call of a
\* cancel_job(job_id) in which terminate() does not raise, after
\* process.terminate(), after the del and after update_job_status
CancelTrace(job_id) ==
    << [tasks |-> tasks, active |-> active, jobs |-> jobs],
       [tasks |-> CancelTasks(job_id), active |-> active, jobs |-> jobs],
       [tasks |-> CancelTasks(job_id), active |-> CancelActive(job_id),
        jobs |-> jobs],
       [tasks |-> CancelTasks(job_id), active |-> CancelActive(job_id),
        jobs |-> CancelJobs(job_id)] >>

\* history: the stored statuses, pending or in_progress, at which a
\* cancel_job(job_id) ran to its end
CancelHistory(job_id) ==
    IF job_id \in DOMAIN jobs /\ jobs[job_id].status \in {"pending", "in_progress"}
    THEN With(cancelledAs, job_id, jobs[job_id].status)
    ELSE cancelledAs

\* a call in which terminate() raises ends there: it changes nothing and
\* the caller gets the exception
TerminateRaised ==
    /\ raised' = "ProcessLookupError"
    /\ UNCHANGED <<jobs, seq, now, config, active, durations, tasks, uiJobs,
                   selected, cancelledAs, scenario, records, dvars, nvars>>

cancel_job(job_id) ==
    \E raises \in TerminateRaises(job_id) :
        IF raises
        THEN TerminateRaised
        ELSE /\ tasks' = CancelTasks(job_id)
             /\ active' = CancelActive(job_id)
             /\ jobs' = CancelJobs(job_id)
             /\ cancelledAs' = CancelHistory(job_id)
             /\ raised' = ""
             /\ UNCHANGED <<seq, now, config, durations, uiJobs, selected,
                            scenario, records, dvars, nvars>>

remove_job(job_id) ==
    \E raises \in TerminateRaises(job_id) :
        IF raises
        THEN TerminateRaised
        ELSE /\ tasks' = CancelTasks(job_id)
             /\ active' = CancelActive(job_id)
             /\ jobs' = DeleteRow(IF job_id \in DOMAIN active
                                  THEN CancelJobs(job_id) ELSE jobs, job_id)
             /\ cancelledAs' = Without(cancelledAs, job_id)
             /\ raised' = ""
             /\ UNCHANGED <<seq, now, config, durations, uiJobs, selected,
                            scenario, records, dvars, nvars>>

\* a call that starts one job more than the free capacity
JobsToStartOneMore(pending, max_parallel, in_progress) ==
    SubSeq(pending, 1, Min(max_parallel - in_progress + 1, Len(pending)))

\* the same with the free slots counted the wrong way round
JobsToStartFlipped(pending, max_parallel, in_progress) ==
    SubSeq(pending, 1, Min(in_progress - max_parallel, Len(pending)))

\* the jobs one process_queue_async call starts, given the pending query's
\* answer
JobsToStart(pending, max_parallel, in_progress) ==
    SubSeq(pending, 1, Min(max_parallel - in_progress, Len(pending)))

process_queue_async ==
    LET max_parallel == config.max_parallel_jobs
        in_progress == get_in_progress_count(jobs) IN
    IF in_progress >= max_parallel
    THEN UNCHANGED vars
    ELSE \E pending \in get_pending_jobs(jobs) :
            LET started == JobsToStart(pending, max_parallel, in_progress) IN
            /\ Len(tasks) + Len(started) <= TaskBound
            /\ tasks' = tasks \o [i \in 1..Len(started) |->
                                      NewTask(jobs, started[i])]
            /\ UNCHANGED <<jobs, seq, now, config, active, durations, uiJobs,
                           selected, raised, cancelledAs, scenario, records, dvars, nvars>>

---------------------------------------------------------------------------
(* start_job_async, one action per stretch between two suspension points *)

\* _notify: the callback, if one is set, is called with the event
Emit(ns, event, job_id) ==
    IF sink = "none" \/ ~Recorded THEN ns ELSE Append(ns, <<event, job_id>>)

\* str(e) of the exception a callback raises
SinkError == <<"SinkError">>

\* the task after `await self._notify(...)` where no handler of the task
\* catches: it goes on to pc, ends with the callback's exception, or waits
\* for ever
Notified(task, pc) ==
    CASE sink = "raises" -> Returned(task)
      [] sink = "hangs" -> [task EXCEPT !.pc = "hung"]
      [] OTHER -> IF pc = "done" THEN Returned(task)
                  ELSE [task EXCEPT !.pc = pc]

\* the same inside the try block: the handler for Exception catches the
\* callback's exception and calls the callback again, which raises again
NotifiedInTry(task) ==
    CASE sink = "raises" -> Returned(task)
      [] sink = "hangs" -> [task EXCEPT !.pc = "hung_try"]
      [] OTHER -> Returned(task)

\* from the task's first run to the await of create_subprocess_exec: the
\* validations, the duration probe, the write of in_progress and the
\* started notification.  A callback that returns does not suspend the task.
\* a validation that does not look for the rule again
ValidationOfFileOnly(destination, source, exists, cfg) ==
    IF destination = <<>> THEN <<"No destination file">>
    ELSE IF ~exists THEN <<"Source file not found: ", source>>
    ELSE None

\* the validations: the error message of the first that fails, else None
Validation(destination, source, exists, cfg) ==
    IF destination = <<>> THEN <<"No destination file">>
    ELSE IF ~exists THEN <<"Source file not found: ", source>>
    ELSE IF get_matching_rule(cfg, source) = None
    THEN <<"No matching transcoding rule">>
    ELSE None

\* exists: os.path.exists(source); duration: what ffprobe answers
start_job_async_on(t, exists, duration) ==
    LET job_id == tasks[t].job
        msg == Validation(tasks[t].destination, tasks[t].source, exists,
                          config) IN
    /\ tasks[t].pc = "spawned"
    /\ IF msg # None
       THEN /\ jobs' = update_job_status(jobs, job_id, "failed", None, msg)
            /\ tasks' = [tasks EXCEPT ![t] = Returned(@)]
            /\ UNCHANGED <<durations, notes>>
       ELSE /\ durations' = IF duration # 0
                            THEN With(durations, job_id, duration)
                            ELSE durations
            /\ jobs' = update_job_status(jobs, job_id, "in_progress",
                                         Zero, None)
            /\ notes' = Emit(notes, "started", job_id)
            /\ tasks' = [tasks EXCEPT ![t] = Notified(@, "launching")]
    /\ UNCHANGED <<seq, now, config, active, uiJobs, selected, raised,
                   cancelledAs, scenario, records, dvars, sink>>

start_job_async(t) ==
    \E exists \in BOOLEAN, duration \in ProbeResults :
        start_job_async_on(t, exists, duration)

\* create_subprocess_exec returns and the process is tracked, or it raises
\* (no encoder binary) and the handler for Exception marks the job failed
\* and notifies
launch(t) ==
    /\ tasks[t].pc = "launching"
    /\ \E launched \in BOOLEAN :
        IF launched
        THEN /\ tasks' = [tasks EXCEPT ![t].pc = "reading", ![t].proc = "running"]
             /\ active' = With(active, tasks[t].job, t)
             /\ UNCHANGED <<jobs, notes>>
        ELSE /\ tasks' = [tasks EXCEPT ![t] = Notified(@, "done")]
             /\ jobs' = update_job_status(jobs, tasks[t].job, "failed", None,
                                          <<"FileNotFoundError">>)
             /\ notes' = Emit(notes, "failed", tasks[t].job)
             /\ UNCHANGED active
    /\ UNCHANGED <<seq, now, config, durations, uiJobs, selected, raised,
                   cancelledAs, scenario, records, dvars, sink>>

\* one line of the progress stream is read; a sample is written to the store
read_line(t, line) ==
    /\ tasks[t].pc = "reading"
    /\ tasks[t].proc = "running"
    /\ LET progress == parse_ffmpeg_progress(line, tasks[t].job, durations) IN
       jobs' = IF progress # None
               THEN update_job_progress(jobs, tasks[t].job, progress)
               ELSE jobs
    /\ UNCHANGED <<seq, now, config, active, durations, tasks, uiJobs,
                   selected, raised, cancelledAs, scenario, records, dvars, nvars>>

\* a line that cannot be decoded raises inside the try block: the handler
\* for Exception marks the job failed
read_line_raises(t) ==
    /\ tasks[t].pc = "reading"
    /\ tasks[t].proc = "running"
    /\ jobs' = update_job_status(jobs, tasks[t].job, "failed", None,
                                 <<"UnicodeDecodeError">>)
    /\ notes' = Emit(notes, "failed", tasks[t].job)
    /\ tasks' = [tasks EXCEPT ![t] = Notified(@, "done")]
    /\ UNCHANGED <<seq, now, config, active, durations, uiJobs, selected,
                   raised, cancelledAs, scenario, records, dvars, sink>>

\* bytes.decode() of the whole stream succeeds
Decodes(bytes) == \A i \in 1..Len(bytes) : bytes[i][1] # "0xff"

\* the message of a non-zero exit: the code and the last 500 characters of
\* the error stream
ExitMessage(returncode, stderr) ==
    <<"ffmpeg exited with code ", returncode, ": ", RunsTail(stderr, StderrTail)>>

\* a notification inside the try block after the status st was written: a
\* callback that raises has the handler for Exception write failed with
\* str(e) and notify failed
CaughtJobs(js, job_id) ==
    IF sink = "raises"
    THEN update_job_status(js, job_id, "failed", None, SinkError)
    ELSE js

CaughtNotes(ns, event, job_id) ==
    IF sink = "raises"
    THEN Emit(Emit(ns, event, job_id), "failed", job_id)
    ELSE Emit(ns, event, job_id)

\* the stream has ended and process.wait() returns: the clean up, then
\* completed and its notification for exit code 0, else the await of
\* stderr.read()
process_exited(t) ==
    /\ tasks[t].pc = "reading"
    /\ tasks[t].proc = "exited"
    /\ active' = Without(active, tasks[t].job)
    /\ durations' = Without(durations, tasks[t].job)
    /\ IF tasks[t].returncode = <<0>>
       THEN /\ jobs' = CaughtJobs(update_job_status(jobs, tasks[t].job,
                                                    "completed", Hundred, None),
                                  tasks[t].job)
            /\ notes' = CaughtNotes(notes, "completed", tasks[t].job)
            /\ tasks' = [tasks EXCEPT ![t] = NotifiedInTry(@)]
       ELSE /\ tasks' = [tasks EXCEPT ![t].pc = "stderr"]
            /\ UNCHANGED <<jobs, notes>>
    /\ UNCHANGED <<seq, now, config, uiJobs, selected, raised, cancelledAs,
                   scenario, records, dvars, sink>>

\* stderr.read() returns: the job is marked failed, with the exit message
\* or, when decode() raises, by the handler for Exception with str(e); the
\* failed notification follows, inside the try block or in the handler
finish_failed(t) ==
    /\ tasks[t].pc = "stderr"
    /\ IF Decodes(tasks[t].stderr)
       THEN /\ jobs' = CaughtJobs(
                          update_job_status(jobs, tasks[t].job, "failed", None,
                                            ExitMessage(tasks[t].returncode[1],
                                                        tasks[t].stderr)),
                          tasks[t].job)
            /\ notes' = CaughtNotes(notes, "failed", tasks[t].job)
            /\ tasks' = [tasks EXCEPT ![t] = NotifiedInTry(@)]
       ELSE /\ jobs' = update_job_status(jobs, tasks[t].job, "failed", None,
                                         <<"UnicodeDecodeError">>)
            /\ notes' = Emit(notes, "failed", tasks[t].job)
            /\ tasks' = [tasks EXCEPT ![t] = Notified(@, "done")]
    /\ UNCHANGED <<seq, now, config, active, durations, uiJobs, selected,
                   raised, cancelledAs, scenario, records, dvars, sink>>

---------------------------------------------------------------------------
(* TranscodingContent: the job list widget *)

\* _refresh_jobs: the cache is read anew
CacheOf(js) == [j \in DOMAIN js |-> js[j].status]

on_show ==
    /\ uiJobs' = CacheOf(jobs)
    /\ UNCHANGED <<jobs, seq, now, config, active, durations, tasks, selected,
                   raised, cancelledAs, scenario, records, dvars, nvars>>

on_data_table_row_selected(job_id) ==
    /\ job_id \in DOMAIN uiJobs
    /\ selected' = << [id |-> job_id, status |-> uiJobs[job_id]] >>
    /\ UNCHANGED <<jobs, seq, now, config, active, durations, tasks, uiJobs,
                   raised, cancelledAs, scenario, records, dvars, nvars>>

on_details_panel_closed ==
    /\ selected # None
    /\ selected' = None
    /\ UNCHANGED <<jobs, seq, now, config, active, durations, tasks, uiJobs,
                   raised, cancelledAs, scenario, records, dvars, nvars>>

\* the periodic refresh: a changed number of jobs replaces the cache and
\* leaves the selected job as it was cached; else every cached job and the
\* selected job take the stored status
update_table_data ==
    /\ IF Cardinality(DOMAIN jobs) # Cardinality(DOMAIN uiJobs)
       THEN /\ uiJobs' = CacheOf(jobs)
            /\ UNCHANGED selected
       ELSE /\ uiJobs' = [j \in DOMAIN uiJobs |->
                            IF j \in DOMAIN jobs THEN jobs[j].status
                            ELSE uiJobs[j]]
            /\ selected' =
                 IF selected # None /\ selected[1].id \in DOMAIN jobs
                 THEN << [id |-> selected[1].id,
                          status |-> jobs[selected[1].id].status] >>
                 ELSE selected
    /\ UNCHANGED <<jobs, seq, now, config, active, durations, tasks, raised,
                   cancelledAs, scenario, records, dvars, nvars>>

\* key c: cancel the selected job if its cached status is pending or
\* in_progress, then refresh and drop the selection
key_c ==
    /\ selected # None
    /\ selected[1].status \in {"pending", "in_progress"}
    /\ \E raises \in TerminateRaises(selected[1].id) :
        IF raises
        THEN TerminateRaised
        ELSE /\ tasks' = CancelTasks(selected[1].id)
             /\ active' = CancelActive(selected[1].id)
             /\ jobs' = CancelJobs(selected[1].id)
             /\ cancelledAs' = CancelHistory(selected[1].id)
             /\ uiJobs' = CacheOf(jobs')
             /\ selected' = None
             /\ raised' = ""
             /\ UNCHANGED <<seq, now, config, durations, scenario, records, dvars,
                            nvars>>

\* key d: remove the selected job, then refresh and drop the selection
key_d ==
    /\ selected # None
    /\ \E raises \in TerminateRaises(selected[1].id) :
        LET job_id == selected[1].id IN
        IF raises
        THEN TerminateRaised
        ELSE /\ tasks' = CancelTasks(job_id)
             /\ active' = CancelActive(job_id)
             /\ jobs' = DeleteRow(IF job_id \in DOMAIN active
                                  THEN CancelJobs(job_id) ELSE jobs, job_id)
             /\ cancelledAs' = Without(cancelledAs, job_id)
             /\ uiJobs' = CacheOf(jobs')
             /\ selected' = None
             /\ raised' = ""
             /\ UNCHANGED <<seq, now, config, durations, scenario, records, dvars,
                            nvars>>

---------------------------------------------------------------------------
(* HomeScreen: the transcoding timer *)

\* the periodic refresh of the job list, on the cache and on the selection
TableJobs ==
    IF Cardinality(DOMAIN jobs) # Cardinality(DOMAIN uiJobs)
    THEN CacheOf(jobs)
    ELSE [j \in DOMAIN uiJobs |->
            IF j \in DOMAIN jobs THEN jobs[j].status ELSE uiJobs[j]]

TableSelected ==
    IF Cardinality(DOMAIN jobs) # Cardinality(DOMAIN uiJobs) THEN selected
    ELSE IF selected # None /\ selected[1].id \in DOMAIN jobs
    THEN << [id |-> selected[1].id, status |-> jobs[selected[1].id].status] >>
    ELSE selected

\* the jobs a process_queue_async call may start
QueueStarts ==
    LET max_parallel == config.max_parallel_jobs
        in_progress == get_in_progress_count(jobs) IN
    IF in_progress >= max_parallel THEN {<<>>}
    ELSE {JobsToStart(pending, max_parallel, in_progress) :
            pending \in get_pending_jobs(jobs)}

\* _update_transcoding_data, the callback of set_interval(2, ...), with
\* transcoding.enabled on: process_queue_async, then the refresh of the job
\* list if it is shown.  The tasks the call before created have had their
\* first run, which the loop gives them before the next timer is due.
update_transcoding_data(visible) ==
    /\ \A t \in Tasks : tasks[t].pc # "spawned"
    /\ \E started \in QueueStarts :
          /\ Len(tasks) + Len(started) <= TaskBound
          /\ tasks' = tasks \o [i \in 1..Len(started) |->
                                    NewTask(jobs, started[i])]
    /\ uiJobs' = IF visible THEN TableJobs ELSE uiJobs
    /\ selected' = IF visible THEN TableSelected ELSE selected
    /\ UNCHANGED <<jobs, seq, now, config, active, durations, raised,
                   cancelledAs, scenario, records, dvars, nvars>>

---------------------------------------------------------------------------
(* DownloadManager *)

\* What a call works on: the tracked map, the session's torrents, the resume
\* files, and the operations the call has issued on the session.
DownloadState ==
    [torrents |-> torrents, handles |-> handles, files |-> files, ops |-> <<>>]

\* handle and handle.is_valid()
Usable(st, magnet_uri) ==
    /\ magnet_uri \in DOMAIN st.torrents
    /\ st.handles[st.torrents[magnet_uri]].valid

\* a torrent that left the session: its handle is invalid
Gone(torrent) ==
    [torrent EXCEPT !.valid = FALSE, !.paused = FALSE, !.state = "gone",
                    !.has_metadata = FALSE, !.origin = "gone"]

\* session.add_torrent(atp) of parse_magnet_uri(magnet_uri)
ColdStart(magnet_uri, is_paused) ==
    [uri |-> magnet_uri, valid |-> TRUE, paused |-> is_paused,
     state |-> "downloading_metadata", has_metadata |-> FALSE,
     origin |-> "magnet"]

\* session.add_torrent(atp) of read_resume_data(...): the blob brings the
\* metadata and the flags the torrent was saved with; the paused hint only
\* adds the paused flag
FromResume(magnet_uri, file, is_paused) ==
    [uri |-> magnet_uri, valid |-> TRUE,
     paused |-> (file = "paused") \/ is_paused,
     state |-> "downloading", has_metadata |-> TRUE, origin |-> "resume"]

\* read_bytes() and read_resume_data() succeed
Loadable(file) == file \in {"running", "paused"}

\* a clean up that leaves the file where it is
Kept(fs, magnet_uri) == fs

\* resume_file.unlink(missing_ok=True)
Unlinked(fs, magnet_uri) == [fs EXCEPT ![magnet_uri] = "absent"]

\* the torrents of magnet_uri that the session holds
SessionHandles(hs, magnet_uri) ==
    {h \in 1..Len(hs) : hs[h].valid /\ hs[h].uri = magnet_uri}

\* self.torrents[magnet_uri] = self.session.add_torrent(atp): the session
\* holds one torrent per info-hash, and for a torrent it holds already
\* add_torrent answers the handle of that torrent as it is
Attached(st, magnet_uri, torrent) ==
    LET same == SessionHandles(st.handles, magnet_uri) IN
    IF same # {}
    THEN LET h == CHOOSE x \in same : TRUE IN
         [st EXCEPT !.torrents = With(@, magnet_uri, h),
                    !.ops = Append(@, <<"add_torrent", h>>)]
    ELSE LET h == Len(st.handles) + 1 IN
         [st EXCEPT !.handles = Append(@, torrent),
                    !.torrents = With(@, magnet_uri, h),
                    !.ops = Append(@, <<"add_torrent", h>>)]

\* handle.pause() and handle.resume()
Pause(st, h) ==
    [st EXCEPT !.handles[h].paused = TRUE, !.ops = Append(@, <<"pause", h>>)]
Resume(st, h) ==
    [st EXCEPT !.handles[h].paused = FALSE, !.ops = Append(@, <<"resume", h>>)]

\* add_torrent on the state st
AddTorrent(st, magnet_uri, is_paused) ==
    IF Usable(st, magnet_uri)
    THEN LET h == st.torrents[magnet_uri] IN
         IF st.handles[h].paused # is_paused
         THEN IF is_paused THEN Pause(st, h) ELSE Resume(st, h)
         ELSE st
    ELSE LET forgotten == [st EXCEPT !.torrents = Without(@, magnet_uri)]
             file == st.files[magnet_uri] IN
         IF file # "absent"
         THEN IF Loadable(file)
              THEN Attached(forgotten, magnet_uri,
                            FromResume(magnet_uri, file, is_paused))
              ELSE Attached([forgotten EXCEPT
                                !.files = Unlinked(@, magnet_uri)],
                            magnet_uri, ColdStart(magnet_uri, is_paused))
         ELSE Attached(forgotten, magnet_uri,
                       ColdStart(magnet_uri, is_paused))

\* remove_torrent on the state st
RemoveTorrent(st, magnet_uri) ==
    LET detached ==
            IF Usable(st, magnet_uri)
            THEN LET h == st.torrents[magnet_uri] IN
                 [st EXCEPT !.handles[h] = Gone(@),
                            !.torrents = Without(@, magnet_uri),
                            !.ops = Append(@, <<"remove_torrent", h>>)]
            ELSE st IN
    [detached EXCEPT !.files = Unlinked(@, magnet_uri)]

\* a toggle that always pauses
TogglePauseOnly(st, magnet_uri) ==
    IF ~Usable(st, magnet_uri) THEN st
    ELSE Pause(st, st.torrents[magnet_uri])

\* toggle_pause on the state st
TogglePause(st, magnet_uri) ==
    IF ~Usable(st, magnet_uri) THEN st
    ELSE LET h == st.torrents[magnet_uri] IN
         IF st.handles[h].paused THEN Resume(st, h) ELSE Pause(st, h)

\* a lookup that answers for whatever handle is tracked
GetTorrentStatusOfTracked(st, magnet_uri) ==
    IF magnet_uri \notin DOMAIN st.torrents THEN None
    ELSE LET s == st.handles[st.torrents[magnet_uri]] IN
         << [state |-> s.state, is_paused |-> s.paused] >>

\* get_torrent_status on the state st: None or <<status>>
GetTorrentStatus(st, magnet_uri) ==
    IF ~Usable(st, magnet_uri) THEN None
    ELSE LET s == st.handles[st.torrents[magnet_uri]] IN
         << [state |-> s.state, is_paused |-> s.paused] >>

\* the handles of a set in the order of self.torrents, which is the order
\* in which the session made them
RECURSIVE InOrder(_)
InOrder(hs) ==
    IF hs = {} THEN <<>>
    ELSE LET h == CHOOSE x \in hs : \A y \in hs : x <= y IN
         <<h>> \o InOrder(hs \ {h})

\* the tracked handles
Tracked(st) == {st.torrents[u] : u \in DOMAIN st.torrents}

\* a policy that pauses every valid torrent that runs
ToPauseAny(st) ==
    {h \in Tracked(st) : st.handles[h].valid /\ ~st.handles[h].paused}

\* the handles enforce_seeding_policy pauses
ToPause(st) ==
    {h \in Tracked(st) :
        /\ st.handles[h].valid
        /\ st.handles[h].state \in {"seeding", "finished"}
        /\ ~st.handles[h].paused}

\* a policy that does not read the setting
PolicyAlwaysOn(flag) == TRUE

\* get_config().get("general.disable_seeding", False)
PolicyOn(flag) == flag

\* enforce_seeding_policy on the state st
EnforceSeedingPolicy(st, flag) ==
    IF ~PolicyOn(flag) THEN st
    ELSE LET hs == ToPause(st) IN
         [st EXCEPT !.handles = [h \in DOMAIN @ |->
                                   IF h \in hs THEN [@[h] EXCEPT !.paused = TRUE]
                                   ELSE @[h]],
                    !.ops = [i \in 1..Cardinality(hs) |->
                                <<"pause", InOrder(hs)[i]>>]]

\* what a call finds: for its uri the resume file, and whether the uri is
\* tracked and its handle valid; else the seeding policy
Found(magnet_uri) ==
    IF magnet_uri \in MagnetUris
    THEN << [file |-> files[magnet_uri],
             tracked |-> magnet_uri \in DOMAIN torrents,
             valid |-> Usable(DownloadState, magnet_uri)] >>
    ELSE << [policy |-> disable_seeding] >>

\* a call has run: what it found, left, issued and answered
Called(op, magnet_uri, st, result) ==
    /\ torrents' = st.torrents
    /\ handles' = st.handles
    /\ files' = st.files
    /\ call' = [op |-> op, uri |-> magnet_uri, found |-> Found(magnet_uri),
                ops |-> st.ops, result |-> result]

add_torrent(magnet_uri, is_paused) ==
    LET st == AddTorrent(DownloadState, magnet_uri, is_paused) IN
    /\ Len(st.handles) <= HandleBound
    /\ Called("add_torrent", magnet_uri, st, None)
    /\ removed' = removed \ {magnet_uri}
    /\ UNCHANGED <<metadata_updated, disable_seeding, alerts, handed,
                   tvars, scenario, records, flush, fetch>>

remove_torrent(magnet_uri) ==
    /\ Called("remove_torrent", magnet_uri,
              RemoveTorrent(DownloadState, magnet_uri), None)
    /\ removed' = removed \cup {magnet_uri}
    /\ UNCHANGED <<metadata_updated, disable_seeding, alerts, handed,
                   tvars, scenario, records, flush, fetch>>

toggle_pause(magnet_uri) ==
    /\ Called("toggle_pause", magnet_uri,
              TogglePause(DownloadState, magnet_uri), None)
    /\ UNCHANGED <<metadata_updated, disable_seeding, alerts, handed,
                   removed, tvars, scenario, records, flush, fetch>>

get_torrent_status(magnet_uri) ==
    /\ Called("get_torrent_status", magnet_uri, DownloadState,
              GetTorrentStatus(DownloadState, magnet_uri))
    /\ UNCHANGED <<metadata_updated, disable_seeding, alerts, handed,
                   removed, tvars, scenario, records, flush, fetch>>

enforce_seeding_policy ==
    /\ Called("enforce_seeding_policy", "",
              EnforceSeedingPolicy(DownloadState, disable_seeding), None)
    /\ UNCHANGED <<metadata_updated, disable_seeding, alerts, handed,
                   removed, tvars, scenario, records, flush, fetch>>

\* the uris of which a tick reads the metadata
Capturable ==
    {u \in DOMAIN torrents :
        /\ u \notin metadata_updated
        /\ handles[torrents[u]].valid
        /\ handles[torrents[u]].has_metadata}

\* a tick that marks a uri whose metadata could not be read
MarkedCareless(reads) == {u \in Capturable : reads[u] # "none"}

\* the uris a tick marks: torrent_file() answered the torrent info
Marked(reads) == {u \in Capturable : reads[u] = "info"}

\* what torrent_file() does during a tick: it answers the info or nothing,
\* or raises
Reads ==
    {reads \in [MagnetUris -> {"info", "none", "raises"}] :
        \A u \in MagnetUris \ Capturable : reads[u] = "info"}

\* check_metadata_updates: update_torrent_metadata is called for the uris
\* whose info was read, and they are marked
check_metadata_updates(reads) ==
    /\ handed' = [u \in MagnetUris |->
                    [calls |-> handed[u].calls
                                 + IF u \in Marked(reads) THEN 1 ELSE 0,
                     raised |-> handed[u].raised
                                  \/ (u \in Capturable /\ reads[u] = "raises")]]
    /\ metadata_updated' = metadata_updated \cup Marked(reads)
    /\ call' = [op |-> "check_metadata_updates", uri |-> "", found |-> None,
                ops |-> <<>>, result |-> None]
    /\ UNCHANGED <<torrents, handles, files, disable_seeding, alerts, removed,
                   tvars, scenario, records, flush, fetch>>

\* the handles save_all_resume_data asks a snapshot of
Saveable ==
    {h \in Tracked(DownloadState) :
        handles[h].valid /\ handles[h].has_metadata}

\* the alerts of the session once the snapshots are requested: a torrent
\* has one snapshot outstanding, the latest
Posted ==
    {a \in alerts : a.handle \notin Saveable}
        \cup {[handle |-> h, paused |-> handles[h].paused] : h \in Saveable}

\* the blob of a snapshot
Blob(alert) == IF alert.paused THEN "paused" ELSE "running"

\* save_all_resume_data: a snapshot is requested of every saveable torrent;
\* the alerts that arrive before the deadline are written to the file of the
\* uri that tracks their handle, the others stay with the session
save_all_resume_data(arrived) ==
    LET popped == IF Saveable = {} THEN {} ELSE arrived IN
    /\ arrived \subseteq Posted
    /\ Saveable = {} => arrived = {}
    /\ alerts' = Posted \ popped
    /\ files' = [u \in MagnetUris |->
                   IF \E a \in popped :
                        u \in DOMAIN torrents /\ torrents[u] = a.handle
                   THEN Blob(CHOOSE a \in popped : torrents[u] = a.handle)
                   ELSE files[u]]
    /\ call' = [op |-> "save_all_resume_data", uri |-> "", found |-> None,
                ops |-> [i \in 1..Cardinality(Saveable) |->
                            <<"save_resume_data", InOrder(Saveable)[i]>>],
                result |-> None]
    /\ UNCHANGED <<torrents, handles, metadata_updated, disable_seeding,
                   handed, removed, tvars, scenario, records, flush, fetch>>

---------------------------------------------------------------------------
(* save_all_resume_data, step by step.  The call is synchronous: no other  *)
(* call of the application runs before it returns, while the session's     *)
(* threads go on.                                                          *)

\* deadline = time.monotonic() + 5, in seconds
FlushDeadline == 5

\* a loop that does not look at the clock
DeadlineIgnored(elapsed) == FALSE

\* not (time.monotonic() < deadline)
DeadlinePassed(elapsed) == elapsed >= FlushDeadline * MaxWaitTicks

\* the first loop: a snapshot is requested of every valid handle with
\* metadata; a request that raises is skipped.  A torrent has one snapshot
\* outstanding, the latest.
flush_request(raises) ==
    LET asked == Saveable \ raises IN
    /\ flush.pc = "idle"
    /\ raises \subseteq Saveable
    /\ alerts' = {a \in alerts : a.handle \notin asked}
                    \cup {[handle |-> h, paused |-> handles[h].paused] :
                            h \in asked}
    /\ flush' = [pc |-> "requested", asked |-> asked, pending |-> {},
                 elapsed |-> 0, waited |-> {}, popped |-> {},
                 before |-> files]
    /\ call' = [op |-> "save_all_resume_data", uri |-> "", found |-> None,
                ops |-> [i \in 1..Cardinality(Saveable) |->
                            <<"save_resume_data", InOrder(Saveable)[i]>>],
                result |-> None]
    /\ UNCHANGED <<torrents, handles, files, metadata_updated,
                   disable_seeding, handed, removed, tvars, scenario, records, fetch>>

\* the deadline is set and the uris to wait for are collected anew: those
\* whose handle is valid and has metadata by now
flush_pending ==
    /\ flush.pc = "requested"
    /\ flush' = [flush EXCEPT
                    !.pc = "draining",
                    !.pending = {u \in DOMAIN torrents :
                                   torrents[u] \in Saveable},
                    !.waited = {u \in DOMAIN torrents :
                                  torrents[u] \in Saveable}]
    /\ UNCHANGED <<torrents, handles, files, metadata_updated,
                   disable_seeding, alerts, handed, removed, call, tvars,
                   scenario, records, fetch>>

\* a lookup by the uri the torrent of the alert was added for
UriOfTorrent(alert) == {handles[alert.handle].uri}

\* the uri an alert is written for: the first in self.torrents with its
\* handle
UriOf(alert) ==
    LET us == {u \in DOMAIN torrents : torrents[u] = alert.handle} IN
    IF us = {} THEN {}
    ELSE {CHOOSE u \in us : \A v \in us : torrents[u] <= torrents[v]}

\* one turn of the while loop: wait_for_alert returns after at most a
\* second, the alerts that have arrived are popped; the snapshots among
\* them are written, the failures are not, and the uris of both are no
\* longer waited for
flush_iterate(arrived, failed, ticks) ==
    /\ flush.pc = "draining"
    /\ flush.pending # {}
    /\ ~DeadlinePassed(flush.elapsed)
    /\ arrived \subseteq alerts
    /\ failed \subseteq arrived
    /\ ticks \in 1..MaxWaitTicks
    /\ alerts' = alerts \ arrived
    /\ files' = [u \in MagnetUris |->
                   IF \E a \in arrived \ failed : u \in UriOf(a)
                   THEN Blob(CHOOSE a \in arrived \ failed : u \in UriOf(a))
                   ELSE files[u]]
    /\ flush' = [flush EXCEPT
                    !.pending = @ \ UNION {UriOf(a) : a \in arrived},
                    !.popped = @ \cup {a.handle : a \in arrived},
                    !.elapsed = Min(@ + ticks, FlushDeadline * MaxWaitTicks)]
    /\ UNCHANGED <<torrents, handles, metadata_updated, disable_seeding,
                   handed, removed, call, tvars, scenario, records, fetch>>

\* the loop condition fails and the call returns
flush_return ==
    /\ flush.pc = "draining"
    /\ flush.pending = {} \/ DeadlinePassed(flush.elapsed)
    /\ flush' = [flush EXCEPT !.pc = "idle"]
    /\ UNCHANGED <<torrents, handles, files, metadata_updated,
                   disable_seeding, alerts, handed, removed, call, tvars,
                   scenario, records, fetch>>

\* the steps of the call
flush_step ==
    \/ \E raises \in SUBSET Saveable : flush_request(raises)
    \/ flush_pending
    \/ \E arrived \in SUBSET alerts :
          \E failed \in SUBSET arrived, ticks \in 1..MaxWaitTicks :
              flush_iterate(arrived, failed, ticks)
    \/ flush_return

---------------------------------------------------------------------------
(* The libtorrent session and the settings *)

Handles == 1..Len(handles)

\* the metadata of a magnet link arrives
metadata_received(h) ==
    /\ handles[h].valid
    /\ handles[h].state = "downloading_metadata"
    /\ handles' = [handles EXCEPT ![h].state = "downloading",
                                  ![h].has_metadata = TRUE]
    /\ UNCHANGED <<torrents, files, metadata_updated, disable_seeding, alerts,
                   handed, removed, call, tvars, scenario, records, flush, fetch>>

\* the download completes
download_finished(h, state) ==
    /\ handles[h].valid
    /\ handles[h].state = "downloading"
    /\ handles' = [handles EXCEPT ![h].state = state]
    /\ UNCHANGED <<torrents, files, metadata_updated, disable_seeding, alerts,
                   handed, removed, call, tvars, scenario, records, flush, fetch>>

\* the torrent leaves the session: the handle is no longer valid
handle_invalidated(h) ==
    /\ handles[h].valid
    /\ handles' = [handles EXCEPT ![h] = Gone(@)]
    /\ UNCHANGED <<torrents, files, metadata_updated, disable_seeding, alerts,
                   handed, removed, call, tvars, scenario, records, flush, fetch>>

\* the session's queue starts or stops an auto-managed torrent
auto_managed(h) ==
    /\ handles[h].valid
    /\ handles' = [handles EXCEPT ![h].paused = ~@]
    /\ UNCHANGED <<torrents, files, metadata_updated, disable_seeding, alerts,
                   handed, removed, call, tvars, scenario, records, flush, fetch>>

\* a snapshot fails: its alert writes no file
resume_data_failed(alert) ==
    /\ alerts' = alerts \ {alert}
    /\ UNCHANGED <<torrents, handles, files, metadata_updated,
                   disable_seeding, handed, removed, call, tvars, scenario, records, flush, fetch>>

\* general.disable_seeding is switched
settings_changed ==
    /\ disable_seeding' = ~disable_seeding
    /\ UNCHANGED <<torrents, handles, files, metadata_updated, alerts, handed,
                   removed, call, tvars, scenario, records, flush, fetch>>

---------------------------------------------------------------------------
(* fetch_torrent_files: the file list of a torrent, over the shared session *)

\* session.add_torrent(atp) of parse_magnet_uri(magnet_uri) in upload mode
Temporary(magnet_uri) ==
    [uri |-> magnet_uri, valid |-> TRUE, paused |-> FALSE,
     state |-> "downloading_metadata", has_metadata |-> FALSE,
     origin |-> "fetch"]

\* the finally clause: with a handle, and the uri no key of the tracked map,
\* the torrent of the handle is removed from the session; remove_torrent of
\* an invalid handle raises, which is swallowed
FetchCleanUp(hs, f) ==
    IF f.handle # None /\ f.uri \notin DOMAIN torrents /\ hs[f.handle[1]].valid
    THEN [hs EXCEPT ![f.handle[1]] = Gone(@)]
    ELSE hs

\* the call f returns or raises, through the finally clause
FetchReturn(hs, f, exit) ==
    /\ handles' = FetchCleanUp(hs, f)
    /\ fetch' = [f EXCEPT !.pc = "idle", !.exit = exit]

\* the call up to its first sleep.  resolved: resolve_magnet_uri answers a
\* magnet uri; parses: parse_magnet_uri does not raise
fetch_torrent_files(magnet_uri, resolved, parses) ==
    LET f == [NoFetch EXCEPT !.uri = magnet_uri] IN
    /\ fetch.pc = "idle"
    /\ IF ~resolved
       THEN FetchReturn(handles, f, "unresolved")
       ELSE IF /\ Usable(DownloadState, magnet_uri)
               /\ handles[torrents[magnet_uri]].has_metadata
       THEN FetchReturn(handles, f, "tracked")
       ELSE IF ~parses
       THEN FetchReturn(handles, f, "exception")
       ELSE LET same == SessionHandles(handles, magnet_uri)
                hs == IF same = {}
                      THEN Append(handles, Temporary(magnet_uri))
                      ELSE handles
                h == IF same = {} THEN Len(hs) ELSE CHOOSE x \in same : TRUE
                g == [f EXCEPT !.handle = <<h>>, !.attached = (same = {})] IN
            /\ Len(hs) <= HandleBound
            /\ IF hs[h].has_metadata
               THEN FetchReturn(hs, g, "metadata")
               ELSE /\ handles' = hs
                    /\ fetch' = [g EXCEPT !.pc = "waiting"]
    /\ UNCHANGED <<torrents, files, metadata_updated, disable_seeding, alerts,
                   handed, removed, call, tvars, scenario, records, flush>>

\* asyncio.sleep(poll_interval) returns, or the task is cancelled in it:
\* the timeout, then has_metadata(), which raises on an invalid handle
fetch_wake(cancelled) ==
    LET h == fetch.handle[1]
        f == [fetch EXCEPT !.elapsed = @ + 1] IN
    /\ fetch.pc = "waiting"
    /\ IF cancelled THEN FetchReturn(handles, fetch, "cancelled")
       ELSE IF f.elapsed >= MaxPolls THEN FetchReturn(handles, f, "timeout")
       ELSE IF ~handles[h].valid THEN FetchReturn(handles, f, "exception")
       ELSE IF handles[h].has_metadata THEN FetchReturn(handles, f, "metadata")
       ELSE fetch' = f /\ UNCHANGED handles
    /\ UNCHANGED <<torrents, files, metadata_updated, disable_seeding, alerts,
                   handed, removed, call, tvars, scenario, records, flush>>

---------------------------------------------------------------------------
(* Specifications *)

\* the seconds at which the next job may be queued: in "queue", "admit" and
\* "progress" every job is queued within the same second
Clock ==
    IF scenario \in {"queue", "admit", "progress", "notify", "cancel",
                     "stop", "frame", "ids", "cascade", "live"}
    THEN {now}
    ELSE now..MaxClock

\* the scheduler and its environment
NextManager ==
    \/ \E magnet_uri \in Uris, source_file \in Files, at \in Clock :
          queue_job(magnet_uri, source_file, at)
    \/ process_queue_async
    \/ \E t \in Tasks : start_job_async(t)
    \/ \E t \in Tasks : launch(t)
    \/ \E t \in Tasks, line \in Lines : read_line(t, line)
    \/ \E t \in Tasks : read_line_raises(t)
    \/ \E t \in Tasks, outcome \in ExitOutcomes : encoder_exit(t, outcome)
    \/ \E t \in Tasks : process_exited(t)
    \/ \E t \in Tasks : finish_failed(t)

\* the manager's API called at any time
Next ==
    \/ NextManager
    \/ \E job_id \in Issued : cancel_job(job_id)
    \/ \E job_id \in Issued : remove_job(job_id)

\* the same while the settings change
NextConfig ==
    \/ Next
    \/ \E cfg \in Configs : config_change(cfg)

\* the manager while torrent records are deleted
NextCascade ==
    \/ Next
    \/ \E magnet_uri \in Uris : delete_torrent_record(magnet_uri)

\* the scheduler while the settings change
NextSettings ==
    \/ NextManager
    \/ \E cfg \in Configs : config_change(cfg)

\* the scheduler driven by the timer after a restart
NextRestart ==
    \/ \E visible \in BOOLEAN : update_transcoding_data(visible)
    \/ \E t \in Tasks : start_job_async(t)
    \/ \E t \in Tasks : launch(t)
    \/ \E t \in Tasks, line \in Lines : read_line(t, line)
    \/ \E t \in Tasks : read_line_raises(t)
    \/ \E t \in Tasks, outcome \in ExitOutcomes : encoder_exit(t, outcome)
    \/ \E t \in Tasks : process_exited(t)
    \/ \E t \in Tasks : finish_failed(t)

\* the timer goes on, every task gets its turn, every encoder exits
FairRestart ==
    /\ WF_vars(\E visible \in BOOLEAN : update_transcoding_data(visible))
    /\ \A t \in 1..MaxTasksRestart :
          /\ WF_vars(t \in Tasks /\ start_job_async(t))
          /\ WF_vars(t \in Tasks /\ launch(t))
          /\ WF_vars(t \in Tasks
                       /\ \E outcome \in ExitOutcomes : encoder_exit(t, outcome))
          /\ WF_vars(t \in Tasks /\ process_exited(t))
          /\ WF_vars(t \in Tasks /\ finish_failed(t))

\* the timer of the home screen drives the queue from an empty store, with
\* the job list not shown, while jobs are queued, cancelled and removed
NextLive ==
    \/ update_transcoding_data(FALSE)
    \/ \E t \in Tasks : start_job_async(t)
    \/ \E t \in Tasks : launch(t)
    \/ \E t \in Tasks, line \in Lines : read_line(t, line)
    \/ \E t \in Tasks : read_line_raises(t)
    \/ \E t \in Tasks, outcome \in ExitOutcomes : encoder_exit(t, outcome)
    \/ \E t \in Tasks : process_exited(t)
    \/ \E t \in Tasks : finish_failed(t)
    \/ \E magnet_uri \in Uris, source_file \in Files, at \in Clock :
          queue_job(magnet_uri, source_file, at)
    \/ \E job_id \in Issued : cancel_job(job_id)
    \/ \E job_id \in Issued : remove_job(job_id)

\* the timer goes on, every task gets its turn, every encoder exits
FairLive ==
    /\ WF_vars(update_transcoding_data(FALSE))
    /\ \A t \in 1..MaxTasksLive :
          /\ WF_vars(t \in Tasks /\ start_job_async(t))
          /\ WF_vars(t \in Tasks /\ launch(t))
          /\ WF_vars(t \in Tasks
                       /\ \E outcome \in ExitOutcomes : encoder_exit(t, outcome))
          /\ WF_vars(t \in Tasks /\ process_exited(t))
          /\ WF_vars(t \in Tasks /\ finish_failed(t))

\* the same over a store with rows of every kind, while the settings change
NextValidate ==
    \/ NextRestart
    \/ \E cfg \in Configs : config_change(cfg)

\* the scheduler while callbacks are registered
NextNotify ==
    \/ NextManager
    \/ \E callback \in Sinks : set_notification_callback(callback)

\* torrents are added and removed while resume data is flushed
NextAttach ==
    \/ \E u \in MagnetUris, is_paused \in BOOLEAN : add_torrent(u, is_paused)
    \/ \E u \in MagnetUris : remove_torrent(u)
    \/ \E arrived \in SUBSET Posted : save_all_resume_data(arrived)
    \/ \E h \in Handles : metadata_received(h)
    \/ \E h \in Handles : handle_invalidated(h)
    \/ \E alert \in alerts : resume_data_failed(alert)

\* the download manager's calls while fetch_torrent_files runs over the
\* shared session
NextFetch ==
    \/ \E u \in MagnetUris : add_torrent(u, FALSE)
    \/ \E u \in MagnetUris : remove_torrent(u)
    \/ \E h \in Handles : metadata_received(h)
    \/ \E h \in Handles : handle_invalidated(h)
    \/ \E u \in MagnetUris, resolved \in BOOLEAN, parses \in BOOLEAN :
          fetch_torrent_files(u, resolved, parses)
    \/ \E cancelled \in BOOLEAN : fetch_wake(cancelled)

\* torrents are added, removed, paused and resumed while they come and go
NextTracked ==
    \/ \E u \in MagnetUris, is_paused \in BOOLEAN : add_torrent(u, is_paused)
    \/ \E u \in MagnetUris : remove_torrent(u)
    \/ \E u \in MagnetUris : toggle_pause(u)
    \/ \E h \in Handles : handle_invalidated(h)

\* torrents saved running are added paused and removed between the flushes
\* of the resume data, which run step by step
NextDrain ==
    \/ \E u \in MagnetUris :
          flush.pc = "idle" /\ add_torrent(u, TRUE)
    \/ \E u \in MagnetUris :
          flush.pc = "idle" /\ remove_torrent(u)
    \/ flush_step

\* torrents are paused, resumed and polled while they download
NextControl ==
    \/ \E u \in MagnetUris, is_paused \in BOOLEAN : add_torrent(u, is_paused)
    \/ \E u \in MagnetUris : toggle_pause(u)
    \/ \E u \in MagnetUris : get_torrent_status(u)
    \/ enforce_seeding_policy
    \/ \E h \in Handles : metadata_received(h)
    \/ \E h \in Handles, state \in {"finished", "seeding"} :
          download_finished(h, state)
    \/ \E h \in Handles : handle_invalidated(h)
    \/ \E h \in Handles : auto_managed(h)
    \/ settings_changed

\* the tick reads the metadata of torrents that come and go
NextMetadata ==
    \/ \E u \in MagnetUris : add_torrent(u, FALSE)
    \/ \E u \in MagnetUris : remove_torrent(u)
    \/ \E reads \in Reads : check_metadata_updates(reads)
    \/ \E h \in Handles : metadata_received(h)
    \/ \E h \in Handles : handle_invalidated(h)

\* torrents are added and the resume data is flushed, step by step, while
\* the session goes on
NextFlush ==
    \/ \E u \in MagnetUris :
          flush.pc = "idle" /\ add_torrent(u, FALSE)
    \/ \E raises \in SUBSET Saveable : flush_request(raises)
    \/ flush_pending
    \/ \E arrived \in SUBSET alerts :
          \E failed \in SUBSET arrived, ticks \in 1..MaxWaitTicks :
              flush_iterate(arrived, failed, ticks)
    \/ flush_return
    \/ \E h \in Handles : metadata_received(h)

\* the manager driven from the job list widget
NextUI ==
    \/ NextManager
    \/ on_show
    \/ \E job_id \in Issued : on_data_table_row_selected(job_id)
    \/ on_details_panel_closed
    \/ update_table_data
    \/ key_c
    \/ key_d

Spec == Init /\ [][Next]_vars
SpecJob == InitJob /\ [][NextConfig]_vars
SpecQueue == InitQueue /\ [][NextSettings]_vars
SpecUI == InitUI /\ [][NextUI]_vars
SpecAdmit == InitAdmit /\ [][NextSettings]_vars
SpecProgress == InitProgress /\ [][NextManager]_vars
SpecNotify == InitNotify /\ [][NextNotify]_vars
SpecRestart == InitRestart /\ [][NextRestart]_vars /\ FairRestart
SpecValidate == InitValidate /\ [][NextValidate]_vars
SpecCancel == InitCancel /\ [][Next]_vars
SpecStop == InitStop /\ [][Next]_vars
SpecFrame == InitFrame /\ [][NextConfig]_vars
SpecIds == InitIds /\ [][Next]_vars
SpecCascade == InitCascade /\ [][NextCascade]_vars
SpecLive == InitLive /\ [][NextLive]_vars /\ FairLive
SpecAttach == InitAttach /\ [][NextAttach]_vars
SpecTracked == InitAttach /\ [][NextTracked]_vars
SpecBlob == InitBlob /\ [][NextAttach]_vars
SpecControl == InitControl /\ [][NextControl]_vars
SpecMetadata == InitMetadata /\ [][NextMetadata]_vars
\* a call that has begun goes on: its thread is not starved
SpecDrain == InitDrain /\ [][NextDrain]_vars
SpecFetch == InitFetch /\ [][NextFetch]_vars
SpecFlush == InitFlush /\ [][NextFlush]_vars /\ WF_vars(flush_step /\ flush.pc # "idle")

---------------------------------------------------------------------------
(* Cancellation *)

\* C1: a job on which cancel_job ran while its stored status was
\* in_progress has the stored status cancelled once its tasks have
\* returned, whatever the encoder's exit code.
C1_CancelledWhileInProgressEndsCancelled ==
    \A j \in DOMAIN jobs :
        (/\ j \in DOMAIN cancelledAs
         /\ cancelledAs[j] = "in_progress"
         /\ RunningTasks(j) = {})
            => jobs[j].status = "cancelled"

\* C2: once cancel_job ran on a job whose stored status was pending, no
\* step makes the stored status in_progress.
C2_CancelledWhilePendingNeverStarts ==
    [][\A j \in DOMAIN jobs \cap DOMAIN jobs' :
          (j \in DOMAIN cancelledAs /\ cancelledAs[j] = "pending")
              => jobs'[j].status # "in_progress"]_vars

---------------------------------------------------------------------------
(* The concurrency budget *)

\* C3: the encoder processes launched and not yet exited never outnumber
\* transcoding.max_parallel_jobs.
C3_LiveProcessesWithinBudget ==
    Cardinality(LiveProcesses) <= config.max_parallel_jobs

TasksOf(job_id) == {t \in Tasks : tasks[t].job = job_id}

\* C4: no job id ever has more than one start_job_async task, nor more than
\* one running encoder process.
C4_OneTaskAndProcessPerJob ==
    \A j \in Issued :
        /\ Cardinality(TasksOf(j)) <= 1
        /\ Cardinality(TasksOf(j) \cap LiveProcesses) <= 1

---------------------------------------------------------------------------
(* The job state machine *)

Transitions ==
    { <<"pending", "in_progress">>, <<"pending", "cancelled">>,
      <<"pending", "failed">>, <<"in_progress", "completed">>,
      <<"in_progress", "failed">>, <<"in_progress", "cancelled">> }

\* C5: every change of a stored status is one of the six transitions of
\* the job state machine; a terminal status never changes again.
C5_OnlyStateMachineTransitions ==
    [][\A j \in DOMAIN jobs \cap DOMAIN jobs' :
          jobs'[j].status # jobs[j].status
              => <<jobs[j].status, jobs'[j].status>> \in Transitions]_vars


---------------------------------------------------------------------------
(* Admission *)

PendingIds == {j \in DOMAIN jobs : jobs[j].status = "pending"}
InProgressIds == {j \in DOMAIN jobs : jobs[j].status = "in_progress"}

\* the jobs of the tasks a step has created
Spawned == {tasks'[t].job : t \in (Len(tasks) + 1)..Len(tasks')}

\* C6: a process_queue_async call made with k rows in_progress, p rows
\* pending and maximum N creates min(N - k, p) tasks if k < N, else none.
C6_AdmitsUpToFreeCapacity ==
    [][process_queue_async =>
          LET k == Cardinality(InProgressIds)
              p == Cardinality(PendingIds)
              N == config.max_parallel_jobs IN
          Len(tasks') - Len(tasks) = IF k < N THEN Min(N - k, p) ELSE 0]_vars

\* the one call so far has met k = 0, p = 2 and N = 1 and created one task
C6_Witness ==
    /\ config.max_parallel_jobs = 1
    /\ Cardinality(PendingIds) = 2
    /\ Len(tasks) = 1
    /\ tasks[1].pc = "spawned"

\* C7: the jobs a process_queue_async call starts are older than every job
\* it leaves pending: ids grow in the order queue_job created the jobs.
C7_AdmitsInCreationOrder ==
    [][process_queue_async =>
          \A j \in Spawned : \A i \in PendingIds \ Spawned : j < i]_vars

---------------------------------------------------------------------------
(* queue_job *)

\* the extension of a file equals a rule's, case and leading dot aside
ExtensionMatches(file_path, rule) ==
    LET want == IF "input_extension" \in DOMAIN rule
                THEN rule.input_extension ELSE <<>>
        dotted == IF want # <<>> /\ Head(want) = "." THEN want
                  ELSE <<".">> \o want IN
    LowerStr(PathSuffix(file_path)) = LowerStr(dotted)

MatchingRules(file_path) ==
    {i \in 1..Len(config.rules) : ExtensionMatches(file_path, config.rules[i])}

\* the output format of the first rule that matches
FirstFormat(file_path) ==
    LET i == CHOOSE i \in MatchingRules(file_path) :
                 \A k \in MatchingRules(file_path) : i <= k
        rule == config.rules[i] IN
    IF "output_format" \in DOMAIN rule THEN rule.output_format ELSE Mp4

\* C8: queue_job of a source file whose extension matches no rule raises
\* the no-matching-rule error and leaves the job records as they are.
C8_NoRuleRaisesAndInsertsNothing ==
    [][\A u \in Uris, f \in Files, at \in Clock :
          (queue_job(u, f, at) /\ MatchingRules(f) = {})
              => /\ raised' = "ValueError"
                 /\ jobs' = jobs
                 /\ seq' = seq]_vars

\* a call has raised while a record exists
C8_Witness == raised = "ValueError" /\ DOMAIN jobs # {}

\* C9: a successful queue_job adds one record, pending with progress 0 and
\* destination directory / (stem "." format of the first matching rule),
\* and changes no other record, no task and no tracked process.
C9_QueueJobAppendsOnePendingRecord ==
    [][\A u \in Uris, f \in Files, at \in Clock :
          (queue_job(u, f, at) /\ MatchingRules(f) # {})
              => /\ raised' = ""
                 /\ \E id \in DOMAIN jobs' \ DOMAIN jobs :
                       /\ DOMAIN jobs' = DOMAIN jobs \cup {id}
                       /\ jobs'[id].status = "pending"
                       /\ jobs'[id].progress = Zero
                       /\ jobs'[id].source_file = f
                       /\ jobs'[id].destination_file =
                             PathJoin(get_destination_path(config),
                                      PathStem(f) \o <<".">> \o FirstFormat(f))
                 /\ \A j \in DOMAIN jobs : jobs'[j] = jobs[j]
                 /\ tasks' = tasks
                 /\ active' = active]_vars

\* the second job was queued for n.Mkv under the rules whose first match
\* names no format, next to a first job that is running and tracked
C9_Witness ==
    /\ DOMAIN jobs = {1, 2}
    /\ jobs[2].status = "pending"
    /\ jobs[2].source_file = FileMkv
    /\ jobs[2].destination_file = <<"/", "o", "/", "n", ".", "m", "p", "4">>
    /\ jobs[1].status = "in_progress"
    /\ 1 \in DOMAIN active

---------------------------------------------------------------------------
(* Failure of the encoder *)

\* run-length encoded text as characters
RECURSIVE Expand(_)
Expand(r) ==
    IF r = <<>> THEN <<>>
    ELSE [i \in 1..r[1][2] |-> r[1][1]] \o Expand(Tail(r))

\* C10: when the task of an in_progress job finalises a non-zero exit, the
\* status becomes failed, the error message ends with the last 500
\* characters of the error stream, and the stored progress stays what the
\* last sample made it.
C10_NonZeroExitMarksFailed ==
    [][\A t \in Tasks :
          (/\ finish_failed(t)
           /\ tasks[t].job \in DOMAIN jobs
           /\ jobs[tasks[t].job].status = "in_progress")
              => LET j == tasks[t].job
                     msg == jobs'[j].error_message IN
                 /\ jobs'[j].status = "failed"
                 /\ Len(msg) = 4
                 /\ Expand(msg[4])
                       = StrTail(Expand(tasks[t].stderr), StderrTail)
                 /\ jobs'[j].progress = jobs[j].progress]_vars

---------------------------------------------------------------------------
(* Progress *)

\* t microseconds of d seconds as a percentage: t / (10000 d), at most 99.9
Percentage(t, d) ==
    LET x == Frac(t, 10000 * d) IN
    IF 10 * x[1] >= 999 * x[2] THEN <<999, 10>> ELSE x

\* C11: a progress line out_time_ms=t read for a job of probed duration
\* d > 0 stores min(t / 1000000 / d * 100, 99.9): 50 for t = 60000000 and
\* d = 120, and 99.9 for every sample with t / 1000000 >= d.
C11_ProgressIsCappedShare ==
    [][\A t \in Tasks, ms \in Samples :
          LET j == tasks[t].job IN
          (/\ read_line(t, <<"out_time_ms", <<ms>> >>)
           /\ j \in DOMAIN jobs
           /\ j \in DOMAIN durations
           /\ durations[j] > 0)
              => /\ jobs'[j].progress = Percentage(ms, durations[j])
                 /\ (ms = 60000000 /\ durations[j] = 120)
                       => jobs'[j].progress = <<50, 1>>
                 /\ ms >= 1000000 * durations[j]
                       => jobs'[j].progress = <<999, 10>>]_vars

\* a sample of 240 seconds was read for a job of 120 seconds
C11_Witness ==
    \E j \in DOMAIN jobs :
        /\ jobs[j].status = "in_progress"
        /\ j \in DOMAIN durations
        /\ durations[j] = 120
        /\ jobs[j].progress = <<999, 10>>

---------------------------------------------------------------------------
(* Attaching and detaching torrents *)

\* the valid torrents of the session that were added for a uri
EngineHandles(hs, magnet_uri) ==
    {h \in 1..Len(hs) : hs[h].valid /\ hs[h].uri = magnet_uri}

\* C12: add_torrent(uri, p) followed at once by add_torrent(uri, p) leaves
\* one handle tracked for uri, and the second call issues no add, pause or
\* resume on the session.
C12_SecondAddIsNoOp ==
    [][\A u \in MagnetUris, p \in BOOLEAN :
          add_torrent(u, p)
              => LET again == AddTorrent(DownloadState', u, p) IN
                 /\ again.ops = <<>>
                 /\ again.torrents = torrents'
                 /\ u \in DOMAIN torrents'
                 /\ EngineHandles(again.handles, u) = {torrents'[u]}]_vars

\* C13: the add_torrent(uri) that follows a remove_torrent(uri) attaches
\* the torrent by cold start and loads no resume blob, whatever the state
\* of the removal and whatever flushes and late snapshots came between.
C13_NoResumeAfterRemoval ==
    [][\A u \in MagnetUris, p \in BOOLEAN :
          (add_torrent(u, p) /\ u \in removed)
              => /\ u \in DOMAIN torrents'
                 /\ handles'[torrents'[u]].origin = "magnet"
                 /\ call'.ops = << <<"add_torrent", torrents'[u]>> >>]_vars

\* C14: add_torrent(uri, p) of an untracked uri whose resume file exists
\* but cannot be read or parsed attaches uri by cold start from the magnet
\* link alone and deletes the file; the call does not fail.
C14_CorruptBlobFallsBackToColdStart ==
    [][\A u \in MagnetUris, p \in BOOLEAN :
          (/\ add_torrent(u, p)
           /\ u \notin DOMAIN torrents
           /\ files[u] \in {"unreadable", "corrupt"})
              => /\ u \in DOMAIN torrents'
                 /\ handles'[torrents'[u]] = ColdStart(u, p)
                 /\ files'[u] = "absent"
                 /\ call'.op = "add_torrent"
                 /\ call'.ops = << <<"add_torrent", torrents'[u]>> >>]_vars

\* an add_torrent call found a file that does not parse and has returned
C14_Witness ==
    /\ call.op = "add_torrent"
    /\ call.found = << [file |-> "corrupt", tracked |-> FALSE,
                        valid |-> FALSE] >>
    /\ call.uri \in DOMAIN torrents
    /\ handles[torrents[call.uri]].origin = "magnet"
    /\ files[call.uri] = "absent"

\* C15: after remove_torrent(uri), from any state, also one where the
\* tracked handle of uri has become invalid, uri is no key of the tracked
\* map and has no resume file, and a second remove_torrent(uri) changes
\* nothing.
C15_RemovedIsForgotten ==
    [][\A u \in MagnetUris :
          remove_torrent(u)
              => /\ u \notin DOMAIN torrents'
                 /\ files'[u] = "absent"
                 /\ RemoveTorrent(DownloadState', u) = DownloadState']_vars

---------------------------------------------------------------------------
(* Pausing, the seeding policy and the status *)

Seeding(torrent) ==
    torrent.valid /\ torrent.state \in {"seeding", "finished"}

\* C16: with general.disable_seeding off, enforce_seeding_policy issues no
\* pause or resume and leaves the tracked map and every paused flag as they
\* are, also those of torrents that are Seeding or Completed.
C16_PolicyOffChangesNothing ==
    [][(enforce_seeding_policy /\ ~disable_seeding)
          => /\ call'.ops = <<>>
             /\ torrents' = torrents
             /\ handles' = handles]_vars

\* the call ran with the policy off while a tracked torrent was seeding
\* and not paused
C16_Witness ==
    /\ call.op = "enforce_seeding_policy"
    /\ call.found = << [policy |-> FALSE] >>
    /\ ~disable_seeding
    /\ \E h \in Tracked(DownloadState) :
          Seeding(handles[h]) /\ ~handles[h].paused

\* C17: with general.disable_seeding on, when enforce_seeding_policy
\* returns every tracked valid torrent that is Seeding or Completed is
\* paused, the paused flag of no other torrent has changed, and a second
\* call right after issues no pause.
C17_PolicyOnPausesSeeders ==
    [][(enforce_seeding_policy /\ disable_seeding)
          => /\ torrents' = torrents
             /\ \A h \in Tracked(DownloadState) :
                   Seeding(handles[h]) => handles'[h].paused
             /\ \A h \in Handles :
                   ~Seeding(handles[h]) => handles'[h] = handles[h]
             /\ \A h \in Handles :
                   handles'[h] = [handles[h] EXCEPT !.paused = handles'[h].paused]
             /\ EnforceSeedingPolicy(DownloadState', disable_seeding).ops
                   = <<>>]_vars

\* the call has paused a seeding torrent next to a torrent that downloads
\* and is not paused
C17_Witness ==
    /\ call.op = "enforce_seeding_policy"
    /\ call.found = << [policy |-> TRUE] >>
    /\ \E h \in Tracked(DownloadState) :
          /\ call.ops = << <<"pause", h>> >>
          /\ Seeding(handles[h])
          /\ handles[h].paused
    /\ \E h \in Tracked(DownloadState) :
          /\ handles[h].valid
          /\ handles[h].state = "downloading"
          /\ ~handles[h].paused

\* C18: get_torrent_status(uri) answers None exactly when uri is not
\* tracked or its handle is invalid, the live status otherwise, raises for
\* no uri, and changes no state.
C18_StatusAbsentIffNotUsable ==
    [][\A u \in MagnetUris :
          get_torrent_status(u)
              => /\ call'.op = "get_torrent_status"
                 /\ call'.result = None
                       <=> (u \notin DOMAIN torrents
                              \/ ~handles[torrents[u]].valid)
                 /\ call'.result # None
                       => call'.result[1]
                            = [state |-> handles[torrents[u]].state,
                               is_paused |-> handles[torrents[u]].paused]
                 /\ call'.ops = <<>>
                 /\ UNCHANGED <<torrents, handles, files, metadata_updated,
                                alerts>>]_vars

\* the status of a tracked uri whose handle is invalid was asked for
C18_Witness ==
    /\ call.op = "get_torrent_status"
    /\ call.found
          = << [file |-> "absent", tracked |-> TRUE, valid |-> FALSE] >>
    /\ call.result = None

\* C19: toggle_pause(uri) changes nothing when uri is not tracked or its
\* handle is invalid; else it pauses the torrent when its live paused flag
\* is clear and resumes it when the flag is set, so that two calls in a row
\* restore the flag.
C19_ToggleFlipsLiveFlag ==
    [][\A u \in MagnetUris :
          toggle_pause(u)
              => /\ torrents' = torrents
                 /\ files' = files
                 /\ IF u \notin DOMAIN torrents \/ ~handles[torrents[u]].valid
                    THEN handles' = handles /\ call'.ops = <<>>
                    ELSE LET h == torrents[u] IN
                         /\ handles'
                              = [handles EXCEPT ![h].paused = ~handles[h].paused]
                         /\ call'.ops
                              = << <<IF handles[h].paused THEN "resume"
                                     ELSE "pause", h>> >>
                         /\ TogglePause(DownloadState', u).handles
                              = handles]_vars

\* a paused torrent was resumed by the call
C19_Witness ==
    /\ call.op = "toggle_pause"
    /\ call.uri \in DOMAIN torrents
    /\ call.ops = << <<"resume", torrents[call.uri]>> >>
    /\ ~handles[torrents[call.uri]].paused

---------------------------------------------------------------------------
(* Capturing the metadata *)

\* C20: over any sequence of check_metadata_updates ticks, add_torrent and
\* remove_torrent calls, the title and size of a uri are handed to
\* update_torrent_metadata at most once; a tick in which torrent_file()
\* raises hands nothing over and leaves the uri unmarked and capturable, and
\* a tick that reads the info of a capturable uri hands it over.
C20_MetadataHandedAtMostOnce ==
    /\ [](\A u \in MagnetUris :
            /\ handed[u].calls <= 1
            /\ u \in metadata_updated <=> handed[u].calls = 1)
    /\ [][\A reads \in Reads : \A u \in Capturable :
             check_metadata_updates(reads)
                 => /\ reads[u] = "raises"
                       => /\ u \notin metadata_updated'
                          /\ handed'[u].calls = handed[u].calls
                          /\ u \in Capturable'
                    /\ reads[u] = "info"
                       => /\ u \in metadata_updated'
                          /\ handed'[u].calls = 1]_vars

\* a tracked uri whose metadata could not be read in one tick was captured
\* by a later one, and a tick has just passed over it
C20_Witness ==
    \E u \in DOMAIN torrents :
        /\ handed[u].raised
        /\ handed[u].calls = 1
        /\ u \in metadata_updated
        /\ handles[torrents[u]].valid
        /\ handles[torrents[u]].has_metadata
        /\ call.op = "check_metadata_updates"

---------------------------------------------------------------------------
(* The resume flush ends *)

\* the uris the running call waits for whose snapshot has neither arrived
\* nor failed
Unanswered == {u \in flush.waited : torrents[u] \notin flush.popped}

\* C21: save_all_resume_data always returns.  It waits on only while a
\* torrent it waits for (valid and with metadata when the deadline is set)
\* has produced neither a snapshot nor a failure and the deadline has not
\* passed; it returns when every one has, else once the deadline has
\* passed, also when no alert ever arrives or a request raised; the file of
\* a torrent without a snapshot is left as it was.
C21_FlushAlwaysReturns ==
    /\ (flush.pc # "idle") ~> (flush.pc = "idle")
    /\ [](flush.pc = "draining" => flush.pending = Unanswered)
    /\ [][(flush.pc = "draining" /\ flush'.pc = "draining" /\ flush' # flush)
             => Unanswered # {} /\ ~DeadlinePassed(flush.elapsed)]_vars
    /\ [][(flush.pc = "draining" /\ flush'.pc = "idle")
             => /\ Unanswered = {} \/ DeadlinePassed(flush.elapsed)
                /\ \A u \in Unanswered : files'[u] = flush.before[u]
                /\ call'.op = "save_all_resume_data"]_vars

\* the call is about to return at the deadline: a request raised, no alert
\* has arrived, and a torrent is still waited for
C21_Witness ==
    /\ flush.pc = "draining"
    /\ DeadlinePassed(flush.elapsed)
    /\ flush.popped = {}
    /\ flush.asked # {}
    /\ \E u \in flush.pending : torrents[u] \notin flush.asked

---------------------------------------------------------------------------
(* Notifications *)

\* the stored status of the job of task t, None when its row is gone
StatusOf(t) ==
    IF tasks[t].job \in DOMAIN jobs THEN <<jobs[tasks[t].job].status>> ELSE None

\* the status stored when an event is notified
StatusAt(event) == IF event = "started" THEN "in_progress" ELSE event

\* C22: whatever the callback does (none is set, it returns, it raises, it
\* never returns), a job whose task has ended or waits for the callback,
\* and that no other task works on, has a terminal status, and the step
\* that calls the callback with an event leaves the status of that event
\* stored.
C22_SinkFailureLeavesJobAlone ==
    /\ [](\A t \in Tasks :
            (/\ tasks[t].pc \in {"done", "hung", "hung_try"}
             /\ RunningTasks(tasks[t].job) \subseteq {t})
                => StatusOf(t) = None \/ StatusOf(t)[1] \in Terminal)
    /\ [][Len(notes') > Len(notes)
             => LET note == notes'[Len(notes) + 1] IN
                note[2] \in DOMAIN jobs'
                    => jobs'[note[2]].status = StatusAt(note[1])]_vars

---------------------------------------------------------------------------
(* Restart *)

\* C23: after a crash and restart every job the store holds as pending is
\* in the end admitted by the periodic process_queue_async calls and leaves
\* pending, however many jobs the store holds as in_progress, with
\* max_parallel_jobs at least 1 and encoders that exit.
C23_PendingAdmittedAfterRestart ==
    \A j \in 1..MaxJobsRestart :
        (j \in DOMAIN jobs /\ jobs[j].status = "pending")
            ~> (j \in DOMAIN jobs /\ jobs[j].status # "pending")

---------------------------------------------------------------------------
(* Validation *)

\* C24: when start_job_async finds no destination file, no source file or
\* no rule for the source, it stores failed with a non-empty error message
\* and the task ends: it stores in_progress at no point, launches and tracks
\* no encoder, probes no duration and calls no callback that could raise.
C24_ValidationFailureMarksFailed ==
    [][\A t \in Tasks, exists \in BOOLEAN, duration \in ProbeResults :
          (/\ start_job_async_on(t, exists, duration)
           /\ \/ tasks[t].destination = None
              \/ ~exists
              \/ get_matching_rule(config, tasks[t].source) = None)
              => LET job_id == tasks[t].job IN
                 /\ jobs'[job_id].status = "failed"
                 /\ jobs'[job_id].error_message # None
                 /\ jobs'[job_id].error_message[1] # ""
                 /\ jobs' = [jobs EXCEPT ![job_id] = jobs'[job_id]]
                 /\ tasks'[t].pc = "done"
                 /\ tasks'[t].proc = "none"
                 /\ UNCHANGED <<active, durations, notes>>]_vars

\* a job without a destination file has been failed, and so has a job
\* without its source file or without a rule, which was never launched
C24_Witness ==
    /\ \E t \in Tasks :
          /\ tasks[t].pc = "done"
          /\ jobs[tasks[t].job].error_message = <<"No destination file">>
    /\ \E t \in Tasks :
          /\ tasks[t].pc = "done"
          /\ tasks[t].proc = "none"
          /\ jobs[tasks[t].job].status = "failed"
          /\ jobs[tasks[t].job].error_message
                \in {<<"No matching transcoding rule">>,
                     <<"Source file not found: ",
                       jobs[tasks[t].job].source_file>>}

---------------------------------------------------------------------------
(* The notifications of a job *)

\* the events the callback was called with for job_id, in order
EventsOf(job_id) ==
    LET Mine(note) == note[2] = job_id
        mine == SelectSeq(notes, Mine) IN
    [i \in 1..Len(mine) |-> mine[i][1]]

\* C25: the notifications of a job are started, then at most one of
\* completed and failed; started is emitted when in_progress with progress 0
\* is stored and no encoder of the job has been launched.
C25_StartedThenOneOutcome ==
    /\ [](\A j \in Issued :
            EventsOf(j) \in {<<>>, <<"started">>, <<"started", "completed">>,
                             <<"started", "failed">>})
    /\ [][(Len(notes') > Len(notes) /\ notes'[Len(notes) + 1][1] = "started")
             => LET j == notes'[Len(notes) + 1][2] IN
                /\ j \in DOMAIN jobs'
                /\ jobs'[j].status = "in_progress"
                /\ jobs'[j].progress = Zero
                /\ \A t \in Tasks : tasks'[t].job = j => tasks'[t].proc = "none"
                /\ j \notin DOMAIN active']_vars

---------------------------------------------------------------------------
(* Cancelling and removing a running job *)

\* the notifications a step emits
NewNotes == {i \in 1..Len(notes') : i > Len(notes)}

\* C26: once cancel_job ran on a job whose stored status was in_progress
\* (its task was running), no step emits a completed or a failed
\* notification for that job.
C26_NoOutcomeNotifiedAfterCancel ==
    [][\A j \in DOMAIN cancelledAs :
          cancelledAs[j] = "in_progress"
              => \A i \in NewNotes :
                    ~(/\ notes'[i][2] = j
                      /\ notes'[i][1] \in {"completed", "failed"})]_vars

\* C27: when every task of a job has returned, neither the process-tracking
\* map nor the duration cache holds an entry for the job.
C27_EndedTaskLeavesNoEntry ==
    \A t \in Tasks :
        (tasks[t].pc = "done" /\ RunningTasks(tasks[t].job) = {})
            => /\ tasks[t].job \notin DOMAIN active
               /\ tasks[t].job \notin DOMAIN durations


\* C28: in cancel_job the write of cancelled to the store finds the job's
\* tracking entry already removed, the call ends in the last state of its
\* statements, and no encoder process is sent more than one terminate
\* request, however cancel_job, remove_job and the job's task interleave.
C28_UntrackedBeforeCancelledOneTerminate ==
    /\ [](\A t \in Tasks : tasks[t].terminated <= 1)
    /\ [](\A job_id \in Issued :
            LET trace == CancelTrace(job_id) IN
            \A i \in 2..Len(trace) :
                trace[i].jobs # trace[i - 1].jobs
                    => job_id \notin DOMAIN trace[i - 1].active)
    /\ [][\A job_id \in Issued :
            (cancel_job(job_id) /\ raised' = "")
                => LET trace == CancelTrace(job_id) IN
                   /\ tasks' = trace[Len(trace)].tasks
                   /\ active' = trace[Len(trace)].active
                   /\ jobs' = trace[Len(trace)].jobs]_vars

\* cancel_job ran on a job whose encoder was running and whose task has not
\* returned: the encoder was sent one request, the entry is gone and the
\* store says cancelled
C28_Witness ==
    \E t \in Tasks :
        /\ tasks[t].terminated = 1
        /\ tasks[t].pc # "done"
        /\ tasks[t].job \in DOMAIN jobs
        /\ tasks[t].job \notin DOMAIN active
        /\ jobs[tasks[t].job].status = "cancelled"
        /\ tasks[t].job \in DOMAIN cancelledAs
        /\ cancelledAs[tasks[t].job] = "in_progress"


\* C29: a remove_job(job_id) leaves no row with that id and no tracking
\* entry for it, the encoder that was tracked and running has been sent a
\* terminate request, and no later step brings a row with a removed id back.
C29_RemovedStaysRemoved ==
    /\ [][\A job_id \in Issued :
            remove_job(job_id)
                => /\ job_id \notin DOMAIN jobs'
                   /\ job_id \notin DOMAIN active'
                   /\ \A t \in Tasks :
                        (/\ job_id \in DOMAIN active
                         /\ active[job_id] = t
                         /\ tasks[t].proc = "running")
                            => tasks'[t].terminated = tasks[t].terminated + 1]_vars
    /\ [][\A job_id \in Issued :
            job_id \notin DOMAIN jobs => job_id \notin DOMAIN jobs']_vars


\* C30: the stored progress of a job is 100 exactly when its status is
\* completed, and lies between 0 and 99.9 otherwise.
C30_ProgressFollowsStatus ==
    \A j \in DOMAIN jobs :
        /\ jobs[j].progress = <<100, 1>> <=> jobs[j].status = "completed"
        /\ jobs[j].status # "completed"
              => /\ FracLeq(<<0, 1>>, jobs[j].progress)
                 /\ FracLeq(jobs[j].progress, Cap)


---------------------------------------------------------------------------
(* What a job keeps *)

\* C31: no step changes the source_file, the magnet_uri or the
\* destination_file of a stored job, also while the rules and the
\* destination directory of the settings change.
C31_CreationFieldsNeverChange ==
    [][\A j \in DOMAIN jobs \cap DOMAIN jobs' :
          /\ jobs'[j].source_file = jobs[j].source_file
          /\ jobs'[j].magnet_uri = jobs[j].magnet_uri
          /\ jobs'[j].destination_file = jobs[j].destination_file]_vars

\* a job was admitted and has ended, or was cancelled, under settings whose
\* destination directory is not the one its destination file lies in
C31_Witness ==
    \E j \in DOMAIN jobs :
        /\ jobs[j].status \in Terminal
        /\ config = ConfigMkv
        /\ jobs[j].destination_file = DestFile(ConfigAvi, FileAvi, RulesAvi[1])
        /\ jobs[j].destination_file
              # PathJoin(get_destination_path(config),
                         PathName(jobs[j].destination_file))


\* the ids of the rows a step inserts
Inserted == DOMAIN jobs' \ DOMAIN jobs

\* C32: the id of every inserted job is higher than every id issued before:
\* it is higher than sqlite_sequence, which is then set to it, never
\* decreases and is never below a stored id, also after the job with the
\* highest id has been removed.
C32_IdsIncreaseAndAreNotReused ==
    /\ [](\A j \in DOMAIN jobs : j <= seq)
    /\ [][seq' >= seq]_vars
    /\ [][\A j \in Inserted :
            /\ j > seq
            /\ seq' = j
            /\ \A i \in DOMAIN jobs : j > i]_vars

\* the job with the highest id issued is stored and a job with a lower id
\* has been removed
C32_Witness ==
    /\ seq = MaxJobsIds
    /\ DOMAIN jobs = {seq}


---------------------------------------------------------------------------
(* The tracked map and the session *)

\* the torrents that are in the session
InSession(hs) == {h \in 1..Len(hs) : hs[h].valid}

\* C33: after every add_torrent, remove_torrent and toggle_pause call on a
\* uri, the uri, if it is tracked, maps to the one torrent the session holds
\* for it; and every torrent the manager has attached and not removed is
\* tracked.
C33_TrackedIsWhatIsAttached ==
    /\ [][\A u \in MagnetUris :
            (\/ \E is_paused \in BOOLEAN : add_torrent(u, is_paused)
             \/ remove_torrent(u)
             \/ toggle_pause(u))
                => (u \in DOMAIN torrents'
                      => EngineHandles(handles', u) = {torrents'[u]})]_vars
    /\ [](InSession(handles) \subseteq Tracked(DownloadState))


\* C34: add_torrent(uri, p) on a uri that has no valid tracked handle
\* attaches a torrent whose paused flag is p, whether it starts from a
\* resume blob, from the magnet link because there is no blob, or from the
\* magnet link after a blob that cannot be read or parsed.
C34_AttachedWithThePausedHint ==
    [][\A u \in MagnetUris, is_paused \in BOOLEAN :
          (add_torrent(u, is_paused) /\ ~Usable(DownloadState, u))
              => /\ u \in DOMAIN torrents'
                 /\ handles'[torrents'[u]].valid
                 /\ handles'[torrents'[u]].paused = is_paused]_vars


\* C35: a turn of the drain loop writes, for every snapshot it pops whose
\* handle is tracked, the blob of the snapshot to the file of the uri that
\* tracks the handle, and it changes no other file: a snapshot of a handle
\* that is not tracked and a failure write nothing.
C35_BlobsOnlyForTrackedHandles ==
    [][\A arrived \in SUBSET alerts :
          \A failed \in SUBSET arrived, ticks \in 1..MaxWaitTicks :
              flush_iterate(arrived, failed, ticks)
                  => \A u \in MagnetUris :
                        LET ready == {a \in arrived \ failed :
                                        /\ u \in DOMAIN torrents
                                        /\ torrents[u] = a.handle} IN
                        /\ \A a \in ready : files'[u] = Blob(a)
                        /\ ready = {} => files'[u] = files[u]]_vars

\* during one flush the snapshot of a handle that is no longer tracked was
\* popped and the file of its uri is still absent, while the snapshot of a
\* tracked torrent was written
C35_Witness ==
    /\ flush.pc = "draining"
    /\ \E h \in flush.popped :
          /\ h \notin Tracked(DownloadState)
          /\ files[handles[h].uri] = "absent"
    /\ \E u \in DOMAIN torrents :
          /\ torrents[u] \in flush.popped
          /\ flush.before[u] = "running"
          /\ files[u] = "paused"


---------------------------------------------------------------------------
(* A job without a probed duration *)

\* C36: a task whose validations pass and whose probe answers no duration
\* stores in_progress with progress 0, caches nothing and goes on to launch
\* the encoder; a line read while no duration is cached for the job writes
\* nothing, so that the stored progress of a job run by one task stays 0
\* until the encoder has exited; and exit code 0 stores completed with
\* progress 100.
C36_NoDurationNoProgress ==
    /\ [][\A t \in Tasks, exists \in BOOLEAN :
            (/\ start_job_async_on(t, exists, 0)
             /\ Validation(tasks[t].destination, tasks[t].source, exists,
                           config) = None
             /\ tasks[t].job \in DOMAIN jobs)
                => /\ jobs'[tasks[t].job].status = "in_progress"
                   /\ jobs'[tasks[t].job].progress = Zero
                   /\ durations' = durations
                   /\ tasks'[t].pc = "launching"]_vars
    /\ [][\A t \in Tasks, line \in Lines :
            (read_line(t, line) /\ tasks[t].job \notin DOMAIN durations)
                => jobs' = jobs]_vars
    /\ [](\A t \in Tasks :
            (/\ TasksOf(tasks[t].job) = {t}
             /\ tasks[t].pc \in {"launching", "reading"}
             /\ tasks[t].job \notin DOMAIN durations
             /\ tasks[t].job \in DOMAIN jobs)
                => /\ jobs[tasks[t].job].status = "in_progress"
                   /\ jobs[tasks[t].job].progress = Zero)
    /\ [][\A t \in Tasks :
            (/\ process_exited(t)
             /\ tasks[t].returncode = <<0>>
             /\ tasks[t].job \in DOMAIN jobs)
                => /\ jobs'[tasks[t].job].status = "completed"
                   /\ jobs'[tasks[t].job].progress = Hundred]_vars

\* the encoder of a job without a cached duration was launched, ran and
\* exited with code 0; the stored progress is still 0
C36_Witness ==
    \E t \in Tasks :
        /\ tasks[t].pc = "reading"
        /\ tasks[t].proc = "exited"
        /\ tasks[t].returncode = <<0>>
        /\ tasks[t].job \in DOMAIN jobs
        /\ tasks[t].job \notin DOMAIN durations
        /\ jobs[tasks[t].job].status = "in_progress"
        /\ jobs[tasks[t].job].progress = Zero


---------------------------------------------------------------------------
(* Jobs and torrent records *)

\* C37: the deletion of a torrent record leaves no job of that torrent, and
\* the magnet_uri of every stored job is the key of a torrent record.
C37_JobsDieWithTheirTorrent ==
    /\ [][\A magnet_uri \in Uris :
            delete_torrent_record(magnet_uri)
                => \A j \in DOMAIN jobs' :
                      jobs'[j].magnet_uri # magnet_uri]_vars
    /\ [](\A j \in DOMAIN jobs : jobs[j].magnet_uri \in records)

---------------------------------------------------------------------------
(* The process-tracking map *)

\* C38: every job id in the process-tracking map is the id of a stored job
\* whose status is in_progress and whose tracked encoder process has not
\* been asked to terminate
C38_TrackedJobsAreRunning ==
    \A job_id \in DOMAIN active :
        /\ job_id \in DOMAIN jobs
        /\ jobs[job_id].status = "in_progress"
        /\ tasks[active[job_id]].terminated = 0

---------------------------------------------------------------------------
(* Progress of the queue *)

\* a start_job_async task was created for the job
Admitted(job_id) == \E t \in Tasks : tasks[t].job = job_id

Stored(job_id, statuses) ==
    job_id \in DOMAIN jobs /\ jobs[job_id].status \in statuses

---------------------------------------------------------------------------
(* fetch_torrent_files and the tracked map *)

\* C40: no step of fetch_torrent_files changes the tracked map; when a call
\* that waited ends (metadata, timeout, exception), the torrent it put in
\* the session is no longer in it, unless the download manager tracks the
\* uri with that torrent by then, in which case the call removes nothing.
C40_FetchLeavesNoTorrentAndTheTrackedMap ==
    /\ [][fetch' # fetch => torrents' = torrents]_vars
    /\ [][(fetch.pc = "waiting" /\ fetch'.pc = "idle")
             => LET h == fetch.handle[1]
                    adopted == /\ fetch.uri \in DOMAIN torrents
                               /\ torrents[fetch.uri] = h IN
                /\ (fetch.attached /\ ~adopted) => ~handles'[h].valid
                /\ adopted => handles' = handles]_vars

===========================================================================
